---------------------------- MODULE Spec2Model ----------------------------
(***************************************************************************)
(* QR Live Protocol: the verification-data aggregation engine.             *)
(*                                                                         *)
(*   src/src/core.py                QRData, QRLiveProtocol                 *)
(*   src/src/time_provider.py       TimeProvider                           *)
(*   src/src/identity_manager.py    IdentityManager                        *)
(*   src/src/blockchain_verifier.py BlockchainVerifier                     *)
(*                                                                         *)
(* Times are whole seconds of the local clock (time.time()).  An optional  *)
(* Python value is a sequence: <<>> is None, <<v>> is the value v.         *)
(***************************************************************************)
EXTENDS Integers, Sequences, FiniteSets, TLC

\* ------------------------------------------------------------- bounds ----
\* sequence numbers handed out before callers stop calling
MaxSeq == 2
\* longest observer list
MaxCallbacks == 2
\* clock advances in one behaviour
MaxTicks == 3
\* the local clock at construction (time.time() is far from the epoch)
StartTime == 1000
\* distinct block hashes a chain endpoint can report
MaxBlock == 2
\* refresh threads spawned for one chain and not yet run
MaxPending == 1
\* network fetches begun for one chain between two advances of the clock
MaxAttempts == 2
\* direct get_blockchain_hashes calls between two advances of the clock
MaxReads == 2

\* -------------------------------------------------- program constants ----
IdentityCacheSeconds == 60
TimeUpdateInterval == 1
CacheDuration == 300
MaxTimeDrift == 30

\* ------------------------------------------------------------- inputs ----
LoopThreads == {"loop1", "loop2"}
DirectCaller == "caller"
Threads == LoopThreads \cup {DirectCaller}
Observers == {"o1", "o2"}
\* observers whose callback raises when invoked
RaisingObservers == {"o1"}
Servers == {"ntp", "http"}
\* clock offsets a time source can report
Offsets == {0, 40}
Chains == {"bitcoin", "ethereum"}
EnabledChains == Chains
FileContents == {"v1", "v2"}

\* Python values handed in as custom data and user data: a str, a list of
\* strs, a tuple of strs
PyStr(x) == [py |-> "str", items |-> <<x>>]
PyList(xs) == [py |-> "list", items |-> xs]
PyTuple(xs) == [py |-> "tuple", items |-> xs]
CustomValues == {PyStr("a"), PyStr("b")}
PyValues == CustomValues \cup {PyList(<<"a", "b">>), PyTuple(<<"a", "b">>)}

None == <<>>
Some(v) == <<v>>

VARIABLES
    \* ---- environment
    now,            \* time.time(), its whole seconds
    frac,           \* time.time(), its reading within the second
    ticks,          \* clock advances so far
    netTime,        \* what each time source answers: <<>> fails, <<offset>>
    netChain,       \* what each chain's endpoints answer: <<>> fail, <<hash>>
    disk,           \* bytes of settings.identity_file
    \* ---- TimeProvider
    timeOffsets,    \* time_offsets: server -> offset
    lastSyncTime,   \* last_sync_time
    syncLock,       \* sync_lock: <<>> free, <<thread>> held
    syncers,        \* per thread that calls force_sync: the call in progress
    \* ---- IdentityManager
    identityInfo,   \* identity_info
    cachedHash,     \* cached_hash (<<>> is None)
    lastHashTime,   \* last_hash_time
    hashAlgorithm,  \* settings.hash_algorithm
    files,          \* the other files on disk: path -> <<>> missing, <<file>>
    exported,       \* the document export_identity last wrote, <<>> for none
    hashers,        \* per thread that calls get_identity_hash: its call
    \* ---- BlockchainVerifier
    cachedBlocks,   \* cached_blocks: chain -> BlockchainInfo
    lastUpdate,     \* last_update: chain -> time
    updateLock,     \* update_lock: <<>> free, <<chain>> held by that refresh
    pending,        \* threads started on _update_chain(chain), not yet run
    fetching,       \* of those threads, the ones inside their handler's request
    answered,       \* per chain, the records those threads' handlers returned
                    \* and the threads have still to store
    upd,            \* the callers of _update_all_chains and force_update
    attempts,       \* per chain: fetches begun since the clock last advanced
    \* ---- QRLiveProtocol
    running,        \* _running
    seqNum,         \* _sequence_number
    currentQr,      \* _current_qr_data
    updateThread,   \* _update_thread
    callbacks,      \* _callbacks
    \* ---- threads
    pc,             \* position of each thread
    loc,            \* locals of each thread
    ctl,            \* the thread calling start/stop: "ready" or "joining"
    \* ---- what callers and observers have seen
    held,           \* the packet the direct caller's last call returned
    retCount,       \* successful generate_single_qr returns to the caller
    verifyOut,      \* outcome of the caller's last verify_qr_data
    since,          \* what happened since the held packet was generated
    callOut,        \* outcome of the last call of a component's read
    reads,          \* direct get_blockchain_hashes calls since the clock advanced
    seen,           \* per observer: the last two sequence numbers received
    disp            \* per loop thread: the dispatch in progress

envVars == <<now, frac, ticks, netTime, netChain, disk>>
timeVars == <<timeOffsets, lastSyncTime, syncLock, syncers>>
identEnv == <<hashAlgorithm, files, exported, hashers>>
identVars == <<identityInfo, cachedHash, lastHashTime, identEnv>>
refreshVars == <<fetching, answered, upd, attempts>>
chainVars == <<cachedBlocks, lastUpdate, updateLock, pending, refreshVars>>
coreVars == <<running, seqNum, currentQr, updateThread, callbacks>>
threadVars == <<pc, loc, ctl>>
callVars == <<callOut, reads>>
obsVars == <<held, retCount, verifyOut, since, seen, disp, callVars>>
vars == <<envVars, timeVars, identVars, chainVars, coreVars, threadVars, obsVars>>

\* ------------------------------------------------------------ helpers ----
Range(f) == {f[x] : x \in DOMAIN f}
Abs(x) == IF x < 0 THEN -x ELSE x

RECURSIVE SortedSeq(_)
\* list.sort() of a bag of integers given as a function server -> value
SortedSeq(f) ==
    IF DOMAIN f = {} THEN <<>>
    ELSE LET k == CHOOSE k \in DOMAIN f : \A j \in DOMAIN f : f[k] <= f[j]
         IN <<f[k]>> \o SortedSeq([j \in DOMAIN f \ {k} |-> f[j]])

\* list.count(o)
Count(o, s) == Cardinality({i \in 1..Len(s) : s[i] = o})

\* dict.get(k)
PyGet(d, k) == IF k \in DOMAIN d THEN d[k] ELSE None

\* A float of seconds is counted in half seconds, so that the average of two
\* whole offsets is exact.
Float(sec) == 2 * sec

\* json.dumps of a Python value: a str is written as a JSON string, a list
\* and a tuple as a JSON array
JsonDumps(v) ==
    [json |-> IF v.py = "str" THEN "string" ELSE "array", items |-> v.items]

\* json.loads of a JSON value: a string is read as a str, an array as a list
JsonLoads(j) ==
    [py |-> IF j.json = "string" THEN "str" ELSE "list", items |-> j.items]

\* json.dumps and json.loads of a dict with str keys: a JSON object of the
\* same member names
JsonDumpsDict(d) == [k \in DOMAIN d |-> JsonDumps(d[k])]
JsonLoadsDict(o) == [k \in DOMAIN o |-> JsonLoads(o[k])]

\* datetime.isoformat() and datetime.fromisoformat(): a timestamp string of
\* a float of seconds
IsoFormat(t) == [iso |-> t]
FromIsoFormat(s) == s.iso

\* ------------------------------------------------------- TimeProvider ----
\* get_current_time with the upper middle offset for an even count
MedianOffsetUpper(offs) ==
    IF DOMAIN offs = {} THEN Float(0)
    ELSE LET offsets == SortedSeq(offs)
             n == Len(offsets)
         IN Float(offsets[n \div 2 + 1])

\* get_current_time, lines 73-82: the median of the sorted offsets as a
\* float, 0 for none (Python's offsets[n//2 - 1] and offsets[n//2] are the
\* elements n \div 2 and n \div 2 + 1 of a sequence counted from 1)
MedianOffset(offs) ==
    IF DOMAIN offs = {} THEN Float(0)
    ELSE LET offsets == SortedSeq(offs)
             n == Len(offsets)
         IN IF n % 2 = 0
            THEN offsets[n \div 2] + offsets[n \div 2 + 1]
            ELSE Float(offsets[n \div 2 + 1])

GetCurrentTime(offs, t) == Float(t) + MedianOffset(offs)

\* sync_all_servers: one response per configured source
SyncAllServers(net) == [s \in Servers |-> net[s]]

\* a mutant: the sources that failed this round keep their old offsets
SyncWithServersMerging(offs, last, net, t) ==
    LET responses == SyncAllServers(net)
        ok == {s \in Servers : responses[s] # None}
    IN IF ok # {}
       THEN [offsets |-> [s \in ok \cup DOMAIN offs |->
                             IF s \in ok THEN responses[s][1] ELSE offs[s]],
             last_sync |-> t]
       ELSE [offsets |-> offs, last_sync |-> last]

\* a mutant: a round without an answer empties the offsets
NewOffsetsOrNone(offs, last, responses, t) ==
    LET ok == {s \in DOMAIN responses : responses[s] # None}
    IN IF ok # {}
       THEN [offsets |-> [s \in ok |-> responses[s][1]], last_sync |-> t]
       ELSE [offsets |-> [s \in {} |-> 0], last_sync |-> last]

\* a mutant: the map is replaced before the round's last offset is in it
NewOffsetsPartial(offs, last, responses, t) ==
    LET ok == {s \in DOMAIN responses : responses[s] # None}
        first == CHOOSE s \in ok : TRUE
    IN IF ok # {}
       THEN [offsets |-> [s \in {first} |-> responses[s][1]], last_sync |-> t]
       ELSE [offsets |-> offs, last_sync |-> last]

\* _sync_with_servers, lines 271-287: the offsets and last_sync_time the
\* round's responses leave
NewOffsets(offs, last, responses, t) ==
    LET ok == {s \in DOMAIN responses : responses[s] # None}
        new_offsets == [s \in ok |-> responses[s][1]]
    IN IF ok # {}
       THEN [offsets |-> new_offsets, last_sync |-> t]
       ELSE [offsets |-> offs, last_sync |-> last]

\* _sync_with_servers with the lock free: the offsets and last_sync_time it
\* leaves
SyncWithServers(offs, last, net, t) ==
    NewOffsets(offs, last, SyncAllServers(net), t)

\* get_time_server_verification: the state after its lazy sync, and the snapshot
TimeAfterVerification(offs, last, net, t) ==
    IF t - last > TimeUpdateInterval
    THEN SyncWithServers(offs, last, net, t)
    ELSE [offsets |-> offs, last_sync |-> last]

TimeServerVerification(st, t) ==
    [s \in DOMAIN st.offsets |->
        [timestamp |-> IsoFormat(Float(t + st.offsets[s])),
         offset |-> st.offsets[s],
         last_sync |-> st.last_sync]]

\* ---------------------------------------------------- IdentityManager ----
HashAlgorithm == "sha256"
SystemInfo == [platform |-> "linux", hostname |-> "host"]

\* hashlib digest of a byte string under an algorithm: injective in both
Digest(alg, data) == [alg |-> alg, data |-> data]

\* the algorithm names _generate_identity_hash recognizes
RecognizedAlgorithms == {"sha256", "sha512", "md5"}

\* the algorithm names hashlib.new knows, and the names a builder is
\* configured with
HashlibAlgorithms == {"sha256", "sha512", "md5", "sha1"}
Algorithms == HashlibAlgorithms \cup {"sha3000"}

\* a file on disk: its bytes, and whether open() succeeds on it
File(bytes) == [readable |-> TRUE, bytes |-> bytes]
Unreadable(bytes) == [readable |-> FALSE, bytes |-> bytes]

\* the string _calculate_file_hash returns for an exception
ErrorString(e) == [error |-> e]

\* _calculate_file_hash under settings.hash_algorithm alg, of the file f at
\* the path (<<>> when there is none): the content hash, or the error string
CalculateFileHashOf(alg, f) ==
    IF alg \notin HashlibAlgorithms THEN ErrorString("ValueError")
    ELSE IF f = None THEN ErrorString("FileNotFoundError")
    ELSE IF ~f[1].readable THEN ErrorString("PermissionError")
    ELSE Digest(alg, <<f[1].bytes>>)

\* _calculate_file_hash of a readable file, under the default algorithm
CalculateFileHash(content) == CalculateFileHashOf(HashAlgorithm, Some(File(content)))

\* _generate_identity_hash under settings.hash_algorithm alg: the labelled
\* segments present, each the json.dumps of its dict (of strs, written as
\* themselves, but for the custom values), joined and hashed
GenerateIdentityHashOf(alg, info) ==
    LET system == IF DOMAIN info.system_info # {}
                  THEN <<[label |-> "system", body |-> info.system_info]>>
                  ELSE <<>>
        tracked == IF DOMAIN info.file_hashes # {}
                   THEN <<[label |-> "files", body |-> info.file_hashes]>>
                   ELSE <<>>
        custom == IF DOMAIN info.custom_data # {}
                  THEN <<[label |-> "custom",
                          body |-> JsonDumpsDict(info.custom_data)]>>
                  ELSE <<>>
        created == <<[label |-> "created",
                      body |-> IsoFormat(info.creation_time)]>>
        combined == system \o tracked \o custom \o created
    IN IF alg \in RecognizedAlgorithms
       THEN Digest(alg, combined)
       ELSE Digest("sha256", combined)

\* _generate_identity_hash under the default algorithm
GenerateIdentityHash(info) == GenerateIdentityHashOf(HashAlgorithm, info)

\* _identity_changed under settings.hash_algorithm alg: the tracked file's
\* live hash differs from the stored one
IdentityChangedOf(alg, info, d) ==
    Some(CalculateFileHashOf(alg, Some(File(d)))) #
        PyGet([k \in DOMAIN info.file_hashes |-> Some(info.file_hashes[k])],
              "identity_file")

\* _identity_changed under the default algorithm
IdentityChanged(info, d) == IdentityChangedOf(HashAlgorithm, info, d)

\* a mutant: a recomputation hashes the tracked file's live bytes
GetIdentityHashLive(info, cached, last, d, t) ==
    IF cached # None /\ t - last < IdentityCacheSeconds /\ ~IdentityChanged(info, d)
    THEN [hash |-> cached[1], cached |-> cached, last |-> last]
    ELSE LET live == [info EXCEPT !.file_hashes =
                         [k \in DOMAIN @ |-> IF k = "identity_file"
                                             THEN CalculateFileHash(d) ELSE @[k]]]
             h == GenerateIdentityHash(live)
         IN [hash |-> h, cached |-> Some(h), last |-> t]

\* get_identity_hash under settings.hash_algorithm alg: the digest returned
\* and the cache it leaves
GetIdentityHashOf(alg, info, cached, last, d, t) ==
    IF /\ cached # None
       /\ t - last < IdentityCacheSeconds
       /\ ~IdentityChangedOf(alg, info, d)
    THEN [hash |-> cached[1], cached |-> cached, last |-> last]
    ELSE LET h == GenerateIdentityHashOf(alg, info)
         IN [hash |-> h, cached |-> Some(h), last |-> t]

\* get_identity_hash under the default algorithm
GetIdentityHash(info, cached, last, d, t) ==
    GetIdentityHashOf(HashAlgorithm, info, cached, last, d, t)

\* _create_new_identity under settings.hash_algorithm alg
CreateNewIdentityOf(alg, d, t) ==
    LET info == [identity_hash |-> "",
                 creation_time |-> Float(t),
                 system_info |-> SystemInfo,
                 file_hashes |-> [k \in {"identity_file"} |->
                                     CalculateFileHashOf(alg, Some(File(d)))],
                 custom_data |-> <<>>,
                 version |-> "1.0"]
    IN [info EXCEPT !.identity_hash = GenerateIdentityHashOf(alg, info)]

\* _create_new_identity under the default algorithm
CreateNewIdentity(d, t) == CreateNewIdentityOf(HashAlgorithm, d, t)

\* ------------------------------------------------- BlockchainVerifier ----
LastUpdateOf(lu, c) == IF c \in DOMAIN lu THEN lu[c] ELSE 0

Stale(lu, c, t) == t - LastUpdateOf(lu, c) > CacheDuration

\* a mutant: a thread is started for every enabled chain
UpdateIfNeededAll(pend, lu, t) ==
    [c \in Chains |-> IF c \in EnabledChains THEN pend[c] + 1 ELSE pend[c]]

\* _update_if_needed: one thread started per enabled stale chain
UpdateIfNeeded(pend, lu, t) ==
    [c \in Chains |->
        IF c \in EnabledChains /\ Stale(lu, c, t) THEN pend[c] + 1 ELSE pend[c]]

\* the bound on started threads lets the call through
CanSpawn(pend, lu, t) ==
    \A c \in EnabledChains : Stale(lu, c, t) => pend[c] < MaxPending

\* get_blockchain_hashes: the cached hash of every enabled chain that has one
GetBlockchainHashes(blocks) ==
    [c \in DOMAIN blocks \cap EnabledChains |-> Some(blocks[c].block_hash)]


\* ------------------------------------------------------------- QRData ----
RequiredFields == {"timestamp", "identity_hash", "blockchain_hashes",
                   "time_server_verification"}
DefaultedFields == {"user_data", "sequence_number"}
QRFields == RequiredFields \cup DefaultedFields

\* json.dumps and json.loads of an optional dict: None is written null
JsonDumpsOptional(d) == IF d = None THEN None ELSE Some(JsonDumpsDict(d[1]))
JsonLoadsOptional(o) == IF o = None THEN None ELSE Some(JsonLoadsDict(o[1]))

\* QRData.to_json: json.dumps(asdict(self)), a JSON object of the six fields.
\* The strs, the ints and the dicts of them are written as JSON strings,
\* numbers and objects that read back alike; the user data holds any values.
ToJson(qr) ==
    [kind |-> "object",
     members |-> [k \in QRFields |->
                     IF k = "user_data" THEN JsonDumpsOptional(qr[k]) ELSE qr[k]]]

\* QRData.from_json: json.loads, then cls(**data).  exc is "" when qr is built.
FromJson(j) ==
    LET keys == DOMAIN j.members
        default == [user_data |-> None, sequence_number |-> 0]
    IN IF j.kind = "invalid" THEN [exc |-> "JSONDecodeError", qr |-> None]
       ELSE IF j.kind # "object" THEN [exc |-> "TypeError", qr |-> None]
       ELSE IF ~(RequiredFields \subseteq keys) THEN [exc |-> "TypeError", qr |-> None]
       ELSE IF ~(keys \subseteq QRFields) THEN [exc |-> "TypeError", qr |-> None]
       ELSE [exc |-> "",
             qr |-> Some([k \in QRFields |->
                            IF k \notin keys THEN default[k]
                            ELSE IF k = "user_data"
                                 THEN JsonLoadsOptional(j.members[k])
                                 ELSE j.members[k]])]

\* the exception classes verify_qr_data's except clause names, with subclasses
CaughtByVerify == {"JSONDecodeError", "ValueError", "KeyError"}

\* ----------------------------------------------------- QRLiveProtocol ----
Alive(t) == pc[t] # "none"
InIteration(t) == pc[t] \in {"gather", "encode", "load", "store", "dispatch"}
\* the iteration has its packet: the dispatch is under way, or over (in
\* whatever way) with the thread in its sleep
Dispatching(t) == pc[t] \in {"dispatch", "sleep"} /\ disp[t].generated

NoLocals == [ud |-> None, qr |-> None, tmp |-> 0, idx |-> 0]
NoDispatch == [generated |-> FALSE, invoked |-> <<>>, mutated |-> FALSE,
               stable |-> {}, stopped |-> FALSE, provider |-> "unset"]

\* the observer list changes: what a dispatch in progress records of it
NoteMutation(o) ==
    disp' = [t \in LoopThreads |->
                IF Dispatching(t)
                THEN [disp[t] EXCEPT !.mutated = TRUE, !.stable = @ \ {o}]
                ELSE disp[t]]

\* add_update_callback
AddCallback(o) ==
    /\ Len(callbacks) < MaxCallbacks
    /\ callbacks' = Append(callbacks, o)
    /\ NoteMutation(o)
    /\ UNCHANGED <<envVars, timeVars, identVars, chainVars, threadVars>>
    /\ UNCHANGED <<running, seqNum, currentQr, updateThread>>
    /\ UNCHANGED <<held, retCount, verifyOut, since, seen, callVars>>

\* list.remove(x): the first occurrence goes
ListRemove(s, x) ==
    LET i == CHOOSE i \in 1..Len(s) : s[i] = x /\ \A j \in 1..(i - 1) : s[j] # x
    IN [k \in 1..(Len(s) - 1) |-> IF k < i THEN s[k] ELSE s[k + 1]]

\* remove_update_callback
RemoveCallback(o) ==
    /\ o \in Range(callbacks)
    /\ callbacks' = ListRemove(callbacks, o)
    /\ NoteMutation(o)
    /\ UNCHANGED <<envVars, timeVars, identVars, chainVars, threadVars>>
    /\ UNCHANGED <<running, seqNum, currentQr, updateThread>>
    /\ UNCHANGED <<held, retCount, verifyOut, since, seen, callVars>>

\* a thread slot no live thread occupies
FreeThread(t) ==
    /\ t \in LoopThreads
    /\ ~Alive(t)
    /\ t = "loop1" \/ Alive("loop1")

\* start_live_generation starts a thread unless _running is set
StartsThread(r) == ~r

\* start_live_generation
StartLiveGeneration ==
    /\ ctl = "ready"
    /\ IF StartsThread(running)
       THEN \E t \in LoopThreads :
               /\ FreeThread(t)
               /\ running' = TRUE
               /\ updateThread' = Some(t)
               /\ pc' = [pc EXCEPT ![t] = "head"]
               /\ loc' = [loc EXCEPT ![t] = NoLocals]
               /\ disp' = [disp EXCEPT ![t] = NoDispatch]
       ELSE UNCHANGED <<running, updateThread, pc, loc, disp>>
    /\ UNCHANGED <<envVars, timeVars, identVars, chainVars>>
    /\ UNCHANGED <<seqNum, currentQr, callbacks, ctl>>
    /\ UNCHANGED <<held, retCount, verifyOut, since, seen, callVars>>

\* stop_live_generation up to its join: the flag is cleared
StopLiveGeneration ==
    /\ ctl = "ready"
    /\ running' = FALSE
    /\ ctl' = IF updateThread # None /\ Alive(updateThread[1])
              THEN "joining" ELSE "ready"
    /\ disp' = [t \in LoopThreads |->
                   IF InIteration(t) /\ running
                   THEN [disp[t] EXCEPT !.stopped = TRUE] ELSE disp[t]]
    /\ UNCHANGED <<envVars, timeVars, identVars, chainVars>>
    /\ UNCHANGED <<seqNum, currentQr, updateThread, callbacks, pc, loc>>
    /\ UNCHANGED <<held, retCount, verifyOut, since, seen, callVars>>

\* join(timeout=1.0) returns because the thread has ended
JoinReturns ==
    /\ ctl = "joining"
    /\ ~Alive(updateThread[1])
    /\ ctl' = "ready"
    /\ UNCHANGED <<envVars, timeVars, identVars, chainVars, coreVars, pc, loc, obsVars>>

\* where a thread stays longer than the join's timeout: its sleep of
\* update_interval (5 s), a network read, an observer's callback
Blocked(t) == pc[t] \in {"sleep", "gather", "dispatch"}

\* join(timeout=1.0) returns with the thread still alive
JoinTimesOut ==
    /\ ctl = "joining"
    /\ Alive(updateThread[1])
    /\ Blocked(updateThread[1])
    /\ ctl' = "ready"
    /\ UNCHANGED <<envVars, timeVars, identVars, chainVars, coreVars, pc, loc, obsVars>>


\* a mutant: the counter is not advanced
NextSequenceStuck(n) == n

\* self._sequence_number += 1, from the value loaded
NextSequence(n) == n + 1

\* generate_single_qr, lines 134-147: the four component reads and the
\* payload, which takes the counter as it is then
Gather(t) ==
    /\ pc[t] = "gather"
    /\ CanSpawn(pending, lastUpdate, now)
    /\ LET current_time == GetCurrentTime(timeOffsets, now)
           ident == GetIdentityHash(identityInfo, cachedHash, lastHashTime, disk, now)
           blockchain_hashes == GetBlockchainHashes(cachedBlocks)
           tp == TimeAfterVerification(timeOffsets, lastSyncTime, netTime, now)
           qr_data == [timestamp |-> IsoFormat(current_time),
                       identity_hash |-> ident.hash,
                       blockchain_hashes |-> blockchain_hashes,
                       time_server_verification |-> TimeServerVerification(tp, now),
                       user_data |-> loc[t].ud,
                       sequence_number |-> seqNum]
       IN /\ cachedHash' = ident.cached
          /\ lastHashTime' = ident.last
          /\ pending' = UpdateIfNeeded(pending, lastUpdate, now)
          /\ timeOffsets' = tp.offsets
          /\ lastSyncTime' = tp.last_sync
          /\ UNCHANGED <<syncLock, syncers>>
          /\ loc' = [loc EXCEPT ![t].qr = Some(qr_data)]
    /\ pc' = [pc EXCEPT ![t] = "encode"]
    /\ since' = IF t = DirectCaller
                THEN [ticked |-> FALSE, mutated |-> FALSE]
                ELSE since
    /\ UNCHANGED <<envVars, identityInfo, identEnv, cachedBlocks, lastUpdate, updateLock>>
    /\ UNCHANGED refreshVars
    /\ UNCHANGED <<coreVars, ctl, held, retCount, verifyOut, seen, disp, callVars>>

\* a mutant: an exception out of generate_single_qr ends the loop thread
AfterErrorEnds(t) == IF t \in LoopThreads THEN "none" ELSE "idle"

\* where an exception out of generate_single_qr leaves the thread: the loop
\* catches it and sleeps (lines 264-266), a direct caller gets it
AfterError(t) == IF t \in LoopThreads THEN "sleep" ELSE "idle"

\* generate_single_qr, lines 134-137: a component read raises before
\* anything is assigned, and the exception leaves the call
GatherRaises(t) ==
    /\ pc[t] = "gather"
    /\ pc' = [pc EXCEPT ![t] = AfterError(t)]
    /\ loc' = [loc EXCEPT ![t] = NoLocals]
    /\ UNCHANGED <<envVars, timeVars, identVars, chainVars, coreVars, ctl, obsVars>>

\* lines 150-151: to_json and the image encoder, which return or raise
Encode(t, ok) ==
    /\ pc[t] = "encode"
    /\ pc' = [pc EXCEPT ![t] = IF ok THEN "load" ELSE AfterError(t)]
    /\ loc' = IF ok THEN loc ELSE [loc EXCEPT ![t] = NoLocals]
    /\ UNCHANGED <<envVars, timeVars, identVars, chainVars, coreVars, ctl, obsVars>>

\* line 154, the read of _sequence_number
LoadSequence(t) ==
    /\ pc[t] = "load"
    /\ loc' = [loc EXCEPT ![t].tmp = seqNum]
    /\ pc' = [pc EXCEPT ![t] = "store"]
    /\ UNCHANGED <<envVars, timeVars, identVars, chainVars, coreVars, ctl, obsVars>>

\* a mutant: the last-packet reference is left as it was
CurrentAfterKept(cur, qr) == cur

\* line 155: self._current_qr_data = qr_data
CurrentAfter(cur, qr) == qr

\* line 154, the write, line 155 and the return: a direct caller has its
\* packet, the loop goes on to notify the observers
StoreSequence(t) ==
    /\ pc[t] = "store"
    /\ seqNum' = NextSequence(loc[t].tmp)
    /\ currentQr' = CurrentAfter(currentQr, loc[t].qr)
    /\ IF t \in LoopThreads
       THEN /\ pc' = [pc EXCEPT ![t] = "dispatch"]
            /\ loc' = [loc EXCEPT ![t].idx = 0]
            /\ disp' = [disp EXCEPT ![t].invoked = <<>>,
                                    ![t].mutated = FALSE,
                                    ![t].generated = TRUE,
                                    ![t].stable =
                                        {o \in Observers : Count(o, callbacks) = 1}]
            /\ UNCHANGED <<held, retCount>>
       ELSE /\ pc' = [pc EXCEPT ![t] = "idle"]
            /\ held' = loc[t].qr
            /\ retCount' = retCount + 1
            /\ loc' = [loc EXCEPT ![t] = NoLocals]
            /\ UNCHANGED disp
    /\ UNCHANGED <<envVars, timeVars, identVars, chainVars>>
    /\ UNCHANGED <<running, updateThread, callbacks, ctl, verifyOut, since, seen, callVars>>

\* a direct call of generate_single_qr(user_data)
CallGenerate(ud) ==
    /\ pc[DirectCaller] = "idle"
    /\ seqNum < MaxSeq
    /\ pc' = [pc EXCEPT ![DirectCaller] = "gather"]
    /\ loc' = [loc EXCEPT ![DirectCaller] = [NoLocals EXCEPT !.ud = ud]]
    /\ held' = None
    /\ verifyOut' = None
    /\ UNCHANGED <<envVars, timeVars, identVars, chainVars, coreVars, ctl>>
    /\ UNCHANGED <<retCount, since, seen, disp, callVars>>

\* a mutant: the loop runs on whatever the flag
LoopContinuesAlways(r) == TRUE

\* while self._running
LoopContinues(r) == r

\* what the user-data provider does when the loop calls it: none is set,
\* it returns a text or an empty one, it raises
ProviderOutcomes == {"unset", "text", "empty", "raises"}

\* lines 234-242: user_data is set only from a text that is truthy
UserDataOf(outcome) ==
    IF outcome = "text" THEN Some([k \in {"user_text"} |-> PyStr("a")]) ELSE None

\* _update_loop, lines 230-242: the test of the flag, then the user-data
\* provider, whose failure leaves user_data None
LoopHead(t, outcome) ==
    /\ pc[t] = "head"
    /\ IF LoopContinues(running)
       THEN /\ seqNum < MaxSeq
            /\ pc' = [pc EXCEPT ![t] = "gather"]
            /\ loc' = [loc EXCEPT ![t] = [NoLocals EXCEPT !.ud = UserDataOf(outcome)]]
            /\ disp' = [disp EXCEPT ![t] = [NoDispatch EXCEPT !.provider = outcome]]
       ELSE /\ pc' = [pc EXCEPT ![t] = "none"]
            /\ loc' = [loc EXCEPT ![t] = NoLocals]
            /\ disp' = [disp EXCEPT ![t] = NoDispatch]
    /\ UNCHANGED <<envVars, timeVars, identVars, chainVars, coreVars, ctl>>
    /\ UNCHANGED <<held, retCount, verifyOut, since, seen, callVars>>

\* a mutant: an observer's exception leaves the for loop
AfterCallbackAbort(o) == IF o \in RaisingObservers THEN "sleep" ELSE "dispatch"

\* lines 249-253: the callback returns, or raises and is caught; either way
\* the for loop goes on
AfterCallback(o) == "dispatch"

\* lines 248-253, one round of the for loop over self._callbacks: the list
\* iterator yields the entry at its index in the list as it is now
DispatchNext(t) ==
    /\ pc[t] = "dispatch"
    /\ loc[t].idx < Len(callbacks)
    /\ LET o == callbacks[loc[t].idx + 1]
           n == loc[t].qr[1].sequence_number
       IN /\ seen' = [seen EXCEPT ![o] = [prev |-> @.last, last |-> n]]
          /\ disp' = [disp EXCEPT ![t].invoked = Append(@, o)]
          /\ pc' = [pc EXCEPT ![t] = AfterCallback(o)]
    /\ loc' = [loc EXCEPT ![t].idx = @ + 1]
    /\ UNCHANGED <<envVars, timeVars, identVars, chainVars, coreVars, ctl>>
    /\ UNCHANGED <<held, retCount, verifyOut, since, callVars>>

\* the iterator is exhausted; lines 256-262, the statistics and the sleep
DispatchEnd(t) ==
    /\ pc[t] = "dispatch"
    /\ loc[t].idx >= Len(callbacks)
    /\ pc' = [pc EXCEPT ![t] = "sleep"]
    /\ loc' = [loc EXCEPT ![t] = NoLocals]
    /\ UNCHANGED <<envVars, timeVars, identVars, chainVars, coreVars, ctl>>
    /\ UNCHANGED obsVars

\* time.sleep returns and the while test is next
Wake(t) ==
    /\ pc[t] = "sleep"
    /\ pc' = [pc EXCEPT ![t] = "head"]
    /\ disp' = [disp EXCEPT ![t] = NoDispatch]
    /\ UNCHANGED <<envVars, timeVars, identVars, chainVars, coreVars, loc, ctl>>
    /\ UNCHANGED <<held, retCount, verifyOut, since, seen, callVars>>


\* ---------------------------------------------------------- verifying ----
\* what json.loads makes of an input that is no packet: not JSON at all, a
\* JSON array, an object without members, a packet without its timestamp, a
\* packet with a member QRData does not have
MalformedInputs(qr) ==
    LET packet == ToJson(qr).members
        none == [k \in {} |-> None]
    IN {[kind |-> "invalid", members |-> none],
        [kind |-> "array", members |-> none],
        [kind |-> "object", members |-> none],
        [kind |-> "object",
         members |-> [k \in QRFields \ {"timestamp"} |-> packet[k]]],
        [kind |-> "object",
         members |-> [k \in QRFields \cup {"extra"} |->
                         IF k = "extra" THEN None ELSE packet[k]]]}

\* the dictionary of lines 192-197, and of lines 220-226 when error is set
Results(valid, error, identity, time, blockchain) ==
    [valid_json |-> valid, error |-> error, identity_verified |-> identity,
     time_verified |-> time, blockchain_verified |-> blockchain]

\* lines 203-207: the packet's timestamp against the local clock
TimeVerified(qr, t) ==
    Abs(Float(t) - FromIsoFormat(qr.timestamp)) <= Float(MaxTimeDrift)

\* lines 212-215: some chain of the packet has the hash now cached for it
BlockchainVerified(qr, current_hashes) ==
    \E chain \in DOMAIN qr.blockchain_hashes :
        PyGet(current_hashes, chain) = qr.blockchain_hashes[chain]

\* a mutant: verification forgets the last packet generated
VerifyFrameForgets ==
    /\ currentQr' = None
    /\ UNCHANGED <<running, seqNum, updateThread, callbacks>>
    /\ UNCHANGED <<identityInfo, identEnv, cachedBlocks, lastUpdate>>

\* what verify_qr_data never assigns: the orchestrator's fields, the
\* identity's inputs, the chain records
VerifyFrame == UNCHANGED <<coreVars, identityInfo, identEnv, cachedBlocks, lastUpdate>>

\* verify_qr_data(j).  input tells a serialized packet from the other inputs;
\* raised is the exception that leaves the call, "" when it returns.  The
\* outcome records, with the results, the packet's chain hashes, the chain
\* records as the call found them and the chains it started a refresh for.
VerifyQrData(j, input) ==
    /\ pc[DirectCaller] = "idle"
    /\ LET parsed == FromJson(j)
       IN IF parsed.exc # ""
          THEN /\ verifyOut' =
                     Some([input |-> input, since |-> since,
                           raised |-> IF parsed.exc \in CaughtByVerify
                                      THEN "" ELSE parsed.exc,
                           hashes |-> [c \in {} |-> None],
                           blocks |-> cachedBlocks,
                           started |-> {},
                           results |-> Results(FALSE, parsed.exc, FALSE, FALSE, FALSE)])
               /\ UNCHANGED <<cachedHash, lastHashTime, pending>>
          ELSE LET qr == parsed.qr[1]
                   expected == GetIdentityHash(identityInfo, cachedHash,
                                               lastHashTime, disk, now)
                   chains == DOMAIN qr.blockchain_hashes # {}
               IN /\ chains => CanSpawn(pending, lastUpdate, now)
                  /\ cachedHash' = expected.cached
                  /\ lastHashTime' = expected.last
                  /\ pending' = IF chains
                                THEN UpdateIfNeeded(pending, lastUpdate, now)
                                ELSE pending
                  /\ verifyOut' =
                        Some([input |-> input, since |-> since, raised |-> "",
                              hashes |-> qr.blockchain_hashes,
                              blocks |-> cachedBlocks,
                              started |-> {c \in Chains : pending'[c] > pending[c]},
                              results |->
                                  Results(TRUE, "",
                                          qr.identity_hash = expected.hash,
                                          TimeVerified(qr, now),
                                          chains /\ BlockchainVerified(qr,
                                              GetBlockchainHashes(cachedBlocks)))])
    /\ VerifyFrame
    /\ UNCHANGED <<envVars, timeVars, updateLock, refreshVars>>
    /\ UNCHANGED <<threadVars, held, retCount, since, seen, disp, callVars>>

\* the caller verifies the packet it holds, serialized
VerifyHeld ==
    /\ held # None
    /\ VerifyQrData(ToJson(held[1]), "packet")

\* a chain no handler fetches: it never has a cached record
UncachedChain == "dogecoin"

\* chain maps a forged packet can carry: any of a cached and an uncached
\* chain, each with null or a hash
CraftedHashes ==
    LET keysets == SUBSET {"bitcoin", UncachedChain}
        values == {None} \cup {Some(h) : h \in 1..MaxBlock}
    IN UNION {[keys -> values] : keys \in keysets}

\* the caller verifies the packet it holds with its chain hashes replaced
VerifyCrafted ==
    /\ held # None
    /\ \E bh \in CraftedHashes :
          VerifyQrData(ToJson([held[1] EXCEPT !.blockchain_hashes = bh]),
                       "crafted")

\* the caller verifies something that is no packet
VerifyMalformed ==
    /\ held # None
    /\ \E j \in MalformedInputs(held[1]) : VerifyQrData(j, "malformed")

\* -------------------------------------------------------- environment ----
\* the clock advances: past the time sync interval, the digest cache's
\* minute, the chain cache's duration
ShortTicks == {TimeUpdateInterval + 1, IdentityCacheSeconds}
LongTick == CacheDuration + 1

Tick(d) ==
    /\ ticks < MaxTicks
    /\ now' = now + d
    /\ ticks' = ticks + 1
    /\ frac' = 0
    /\ attempts' = [c \in Chains |-> 0]
    /\ reads' = 0
    /\ since' = [since EXCEPT !.ticked = TRUE]
    /\ UNCHANGED <<netTime, netChain, disk>>
    /\ UNCHANGED <<cachedBlocks, lastUpdate, updateLock, pending, fetching, answered, upd>>
    /\ UNCHANGED <<timeVars, identVars, coreVars, threadVars>>
    /\ UNCHANGED <<held, retCount, verifyOut, seen, disp, callOut>>

\* the identity file is rewritten
DiskWrite(v) ==
    /\ v # disk
    /\ disk' = v
    /\ UNCHANGED <<now, frac, ticks, netTime, netChain>>
    /\ UNCHANGED <<timeVars, identVars, chainVars, coreVars, threadVars, obsVars>>

\* a time source starts to answer r
NetTimeChange(s, r) ==
    /\ netTime[s] # r
    /\ netTime' = [netTime EXCEPT ![s] = r]
    /\ UNCHANGED <<now, frac, ticks, netChain, disk>>
    /\ UNCHANGED <<timeVars, identVars, chainVars, coreVars, threadVars, obsVars>>

\* TimeProvider.force_sync().  The outcome records the value returned, the
\* round's responses and the offsets the call found.
ForceSync ==
    /\ LET responses == SyncAllServers(netTime)
           st == SyncWithServers(timeOffsets, lastSyncTime, netTime, now)
       IN /\ timeOffsets' = st.offsets
          /\ lastSyncTime' = st.last_sync
          /\ callOut' = Some([op |-> "force_sync",
                              ret |-> \E s \in Servers : responses[s] # None,
                              responses |-> responses,
                              before |-> timeOffsets])
    /\ UNCHANGED <<syncLock, syncers>>
    /\ UNCHANGED <<envVars, identVars, chainVars, coreVars, threadVars>>
    /\ UNCHANGED <<held, retCount, verifyOut, since, seen, disp, reads>>

\* the configured time servers (TimeSettings.time_servers) and the HTTP API
MedianSources == {"nist", "pool", "google", "cloudflare", "http"}

\* the offsets the sources of a consensus may hold, in whole seconds
MedianOffsets == {-2, -1, 0, 1, 2}

\* TimeProvider.get_current_time().  The outcome records the value returned,
\* the local clock and the offsets the call read.
GetTime ==
    /\ callOut' = Some([op |-> "get_current_time",
                        ret |-> GetCurrentTime(timeOffsets, now),
                        local |-> now,
                        offsets |-> timeOffsets])
    /\ UNCHANGED <<envVars, timeVars, identVars, chainVars, coreVars, threadVars>>
    /\ UNCHANGED <<held, retCount, verifyOut, since, seen, disp, reads>>

\* the threads that call force_sync concurrently
Syncers == {"sync1", "sync2"}

\* sync_all_servers asks the configured sources in this order
SourceOrder == <<"ntp", "http">>

\* the counters a call has incremented: total_syncs, successful_syncs,
\* failed_syncs
NoCounts == [total |-> 0, successful |-> 0, failed |-> 0]

\* a thread outside force_sync.  Of a call in progress: todo the sources
\* still to ask, responses the answers so far, queried the requests sent,
\* before the offsets and last_sync_time the call found.  Of its last call:
\* counted the counters it incremented, skipped whether it found the lock
\* held.
NoSync == [at |-> "idle", todo |-> <<>>, responses |-> [s \in {} |-> None],
           queried |-> 0, counted |-> NoCounts,
           before |-> [offsets |-> [s \in {} |-> 0], last_sync |-> 0],
           skipped |-> FALSE]

\* a mutant: the lock is taken whoever holds it
SyncAcquiredAlways(lock) == TRUE

\* sync_lock.acquire(blocking=False) on a lock in this state
SyncAcquired(lock) == lock = None

\* force_sync() enters _sync_with_servers, lines 265-268: the lock is taken
\* and the round counted, or the lock is held and the call returns
SyncCall(w) ==
    /\ syncers[w].at = "idle"
    /\ LET found == [offsets |-> timeOffsets, last_sync |-> lastSyncTime]
       IN IF SyncAcquired(syncLock)
          THEN /\ syncLock' = Some(w)
               /\ syncers' = [syncers EXCEPT ![w] =
                                 [NoSync EXCEPT !.at = "query",
                                                !.todo = SourceOrder,
                                                !.counted.total = 1,
                                                !.before = found]]
          ELSE /\ syncers' = [syncers EXCEPT ![w] =
                                 [NoSync EXCEPT !.skipped = TRUE]]
               /\ UNCHANGED syncLock
    /\ UNCHANGED <<timeOffsets, lastSyncTime>>
    /\ UNCHANGED <<envVars, identVars, chainVars, coreVars, threadVars, obsVars>>

\* sync_all_servers, one turn of its loops: the next source is asked and
\* its response kept
SyncQuery(w) ==
    /\ syncers[w].at = "query"
    /\ syncers[w].todo # <<>>
    /\ LET s == Head(syncers[w].todo)
       IN syncers' = [syncers EXCEPT
              ![w].todo = Tail(@),
              ![w].queried = @ + 1,
              ![w].responses = [k \in DOMAIN @ \cup {s} |->
                                   IF k = s THEN netTime[s] ELSE @[k]]]
    /\ UNCHANGED <<timeOffsets, lastSyncTime, syncLock>>
    /\ UNCHANGED <<envVars, identVars, chainVars, coreVars, threadVars, obsVars>>

\* _sync_with_servers, lines 271-290: the offsets replaced or kept, the
\* round counted as a success or a failure, the lock released
SyncFinish(w) ==
    /\ syncers[w].at = "query"
    /\ syncers[w].todo = <<>>
    /\ LET responses == syncers[w].responses
           st == NewOffsets(timeOffsets, lastSyncTime, responses, now)
           ok == \E s \in DOMAIN responses : responses[s] # None
       IN /\ timeOffsets' = st.offsets
          /\ lastSyncTime' = st.last_sync
          /\ syncers' = [syncers EXCEPT ![w] =
                 [NoSync EXCEPT
                     !.counted = [total |-> syncers[w].counted.total,
                                  successful |-> IF ok THEN 1 ELSE 0,
                                  failed |-> IF ok THEN 0 ELSE 1]]]
    /\ syncLock' = None
    /\ UNCHANGED <<envVars, identVars, chainVars, coreVars, threadVars, obsVars>>

\* a chain grows a block
NewBlock(c) ==
    /\ netChain[c] # None
    /\ netChain[c][1] < MaxBlock
    /\ netChain' = [netChain EXCEPT ![c] = Some(@[1] + 1)]
    /\ UNCHANGED <<now, frac, ticks, netTime, disk>>
    /\ UNCHANGED <<timeVars, identVars, chainVars, coreVars, threadVars, obsVars>>

\* d[k] = v on a dict, del d[k]
Put(d, k, v) == [j \in DOMAIN d \cup {k} |-> IF j = k THEN v ELSE d[j]]
Del(d, k) == [j \in DOMAIN d \ {k} |-> d[j]]

\* a mutant: the cached digest survives a mutation
InvalidatedKept(cached) == cached

\* self.cached_hash = None
Invalidated(cached) == None

\* IdentityManager.update_custom_data(key, value)
UpdateCustomData(key, value) ==
    /\ identityInfo' =
          [identityInfo EXCEPT !.custom_data = Put(@, key, value)]
    /\ cachedHash' = Invalidated(cachedHash)
    /\ since' = [since EXCEPT !.mutated = TRUE]
    /\ UNCHANGED <<envVars, timeVars, lastHashTime, identEnv>>
    /\ UNCHANGED <<chainVars, coreVars, threadVars>>
    /\ UNCHANGED <<held, retCount, verifyOut, seen, disp, callVars>>

\* the threads that call get_identity_hash concurrently, and the locals of
\* a call: the time it read, the digest it generated, the value it returned
Hashers == {"hash1", "hash2"}
NoHash == [at |-> "idle", current_time |-> 0, digest |-> None, ret |-> None]

\* the paths add_file_to_identity is called with, and os.path.basename
Paths == {[dir |-> "docs", name |-> "a.txt"]}
Basename(p) == p.name
Aliases == {None, Some("doc")}

\* what a path can hold: nothing, a readable file, a file open() fails on
FileStates == {None, Some(File("v1")), Some(Unreadable("v1"))}

\* what the calls of the identity manager leave unchanged besides its fields
IdentityFrame ==
    /\ UNCHANGED <<envVars, timeVars, chainVars, coreVars, threadVars>>
    /\ UNCHANGED <<held, retCount, verifyOut, since, seen, disp, reads>>

\* a file is created, rewritten, made unreadable or deleted
FileChange(p, f) ==
    /\ files[p] # f
    /\ files' = [files EXCEPT ![p] = f]
    /\ UNCHANGED <<identityInfo, cachedHash, lastHashTime>>
    /\ UNCHANGED <<hashAlgorithm, exported, hashers, callOut>>
    /\ IdentityFrame

\* what an outcome keeps of a get_identity_hash call
HashOutcome(o) == [ret |-> o.ret, info |-> o.info, disk |-> o.disk]

\* IdentityManager.get_identity_hash() by a single caller.  The outcome
\* records the digest returned, the identity and the tracked file as the call
\* found them, and the same of the call before it when that was the last call.
GetHash ==
    /\ LET r == GetIdentityHashOf(hashAlgorithm, identityInfo, cachedHash,
                                  lastHashTime, disk, now)
           o == [ret |-> r.hash, info |-> identityInfo, disk |-> disk]
       IN /\ cachedHash' = r.cached
          /\ lastHashTime' = r.last
          /\ callOut' =
                Some([op |-> "get_identity_hash", ret |-> o.ret,
                      info |-> o.info, disk |-> o.disk,
                      prev |-> IF callOut # None
                                  /\ callOut[1].op = "get_identity_hash"
                               THEN Some(HashOutcome(callOut[1]))
                               ELSE None])
    /\ UNCHANGED <<identityInfo, identEnv>>
    /\ IdentityFrame

\* IdentityManager.add_file_to_identity(file_path, alias).  The outcome
\* records the value returned, the file as the call found it, the key and
\* the file hashes and the cached digest before and after.
AddFile(p, alias) ==
    /\ LET exists == files[p] # None
           file_hash == CalculateFileHashOf(hashAlgorithm, files[p])
           key == IF alias # None THEN alias[1] ELSE Basename(p)
       IN /\ identityInfo' =
                IF exists
                THEN [identityInfo EXCEPT !.file_hashes = Put(@, key, file_hash)]
                ELSE identityInfo
          /\ cachedHash' = IF exists THEN Invalidated(cachedHash) ELSE cachedHash
          /\ callOut' =
                Some([op |-> "add_file_to_identity", ret |-> exists,
                      raised |-> "", file |-> files[p], key |-> key,
                      before |-> [file_hashes |-> identityInfo.file_hashes,
                                  cached |-> cachedHash],
                      after |-> [file_hashes |-> identityInfo'.file_hashes,
                                 cached |-> cachedHash']])
    /\ UNCHANGED <<lastHashTime, identEnv>>
    /\ IdentityFrame

\* IdentityManager.remove_file_from_identity(file_key)
RemoveFile(key) ==
    /\ LET found == key \in DOMAIN identityInfo.file_hashes
       IN /\ identityInfo' =
                IF found
                THEN [identityInfo EXCEPT !.file_hashes = Del(@, key)]
                ELSE identityInfo
          /\ cachedHash' = IF found THEN Invalidated(cachedHash) ELSE cachedHash
          /\ callOut' = Some([op |-> "remove_file_from_identity", ret |-> found])
    /\ UNCHANGED <<lastHashTime, identEnv>>
    /\ IdentityFrame

\* get_identity_hash by thread w, lines 70-76: the time is read and the
\* cached digest returned when it is fresh
HashCall(w) ==
    /\ hashers[w].at = "idle"
    /\ hashers' =
          [hashers EXCEPT ![w] =
              IF /\ cachedHash # None
                 /\ now - lastHashTime < IdentityCacheSeconds
                 /\ ~IdentityChangedOf(hashAlgorithm, identityInfo, disk)
              THEN [NoHash EXCEPT !.ret = cachedHash]
              ELSE [NoHash EXCEPT !.at = "generate", !.current_time = now]]
    /\ UNCHANGED <<identityInfo, cachedHash, lastHashTime>>
    /\ UNCHANGED <<hashAlgorithm, files, exported, callOut>>
    /\ IdentityFrame

\* line 79, its right-hand side: the digest of the identity as it is now
HashGenerate(w) ==
    /\ hashers[w].at = "generate"
    /\ hashers' =
          [hashers EXCEPT
              ![w].at = "store",
              ![w].digest = Some(GenerateIdentityHashOf(hashAlgorithm, identityInfo))]
    /\ UNCHANGED <<identityInfo, cachedHash, lastHashTime>>
    /\ UNCHANGED <<hashAlgorithm, files, exported, callOut>>
    /\ IdentityFrame

\* lines 79-80: the digest and the time read at the start are stored
HashStore(w) ==
    /\ hashers[w].at = "store"
    /\ cachedHash' = hashers[w].digest
    /\ lastHashTime' = hashers[w].current_time
    /\ hashers' = [hashers EXCEPT ![w].at = "return"]
    /\ UNCHANGED <<identityInfo, hashAlgorithm, files, exported, callOut>>
    /\ IdentityFrame

\* line 83: return self.cached_hash
HashReturn(w) ==
    /\ hashers[w].at = "return"
    /\ hashers' = [hashers EXCEPT ![w] = [NoHash EXCEPT !.ret = cachedHash]]
    /\ UNCHANGED <<identityInfo, cachedHash, lastHashTime>>
    /\ UNCHANGED <<hashAlgorithm, files, exported, callOut>>
    /\ IdentityFrame

\* the packets a caller can hold: with and without chain hashes, time
\* sources, user data and a sequence number
UserData ==
    {None, Some(<<>>)} \cup {Some([k \in {"k"} |-> v]) : v \in PyValues}
Packets ==
    {[timestamp |-> IsoFormat(Float(StartTime)),
      identity_hash |-> GenerateIdentityHash(CreateNewIdentity("v1", StartTime)),
      blockchain_hashes |-> bh,
      time_server_verification |->
          TimeServerVerification([offsets |-> offs, last_sync |-> StartTime],
                                 StartTime),
      user_data |-> ud,
      sequence_number |-> n] :
        bh \in UNION {[D -> {Some(1), Some(2)}] : D \in SUBSET Chains},
        offs \in {[x \in {} |-> 0], [x \in {"ntp"} |-> 0]},
        ud \in UserData,
        n \in 0..MaxSeq}

\* QRData.from_json(p.to_json()) of the packet held.  The outcome records
\* the packet and what the call built.
RoundTrip ==
    /\ held # None
    /\ callOut' = Some([op |-> "from_json", packet |-> held[1],
                        parsed |-> FromJson(ToJson(held[1]))])
    /\ UNCHANGED <<envVars, timeVars, identVars, chainVars, coreVars, threadVars>>
    /\ UNCHANGED <<held, retCount, verifyOut, since, seen, disp, reads>>

\* export_identity, lines 170-174: the document written.  The strs and the
\* dicts of strs are written as JSON strings and objects that read back
\* alike.
ExportData(info) ==
    [identity_hash |-> info.identity_hash,
     creation_time |-> IsoFormat(info.creation_time),
     system_info |-> info.system_info,
     file_hashes |-> info.file_hashes,
     custom_data |-> JsonDumpsDict(info.custom_data),
     version |-> info.version]

\* import_identity, lines 196-207: the identity read from a document
ImportData(data) ==
    [identity_hash |-> data.identity_hash,
     creation_time |-> FromIsoFormat(data.creation_time),
     system_info |-> data.system_info,
     file_hashes |-> data.file_hashes,
     custom_data |-> JsonLoadsDict(data.custom_data),
     version |-> data.version]

\* the document a builder of another machine exported, with its identity
\* and its digest
ForeignIdentity ==
    LET info == [identity_hash |-> "",
                 creation_time |-> Float(StartTime),
                 system_info |-> [platform |-> "linux", hostname |-> "other"],
                 file_hashes |-> <<>>,
                 custom_data |-> <<>>,
                 version |-> "1.0"]
    IN [info EXCEPT !.identity_hash = GenerateIdentityHash(info)]
ForeignExport ==
    [data |-> ExportData(ForeignIdentity),
     info |-> ForeignIdentity,
     digest |-> GenerateIdentityHash(ForeignIdentity)]

\* the keys remove_file_from_identity is called with
FileKeys == {"identity_file", "doc"} \cup {Basename(p) : p \in Paths}

\* IdentityManager.export_identity(p).  Besides the document, the file
\* remembers the exporter's identity and its digest at the time.
ExportIdentity ==
    /\ exported' =
          Some([data |-> ExportData(identityInfo),
                info |-> identityInfo,
                digest |-> GenerateIdentityHashOf(hashAlgorithm, identityInfo)])
    /\ callOut' = Some([op |-> "export_identity", ret |-> TRUE])
    /\ UNCHANGED <<identityInfo, cachedHash, lastHashTime>>
    /\ UNCHANGED <<hashAlgorithm, files, hashers>>
    /\ IdentityFrame

\* IdentityManager.import_identity(p).  The outcome records the value
\* returned, the file read, and the identity and the cached digest the call
\* leaves.
ImportIdentity ==
    /\ identityInfo' = IF exported # None
                       THEN ImportData(exported[1].data)
                       ELSE identityInfo
    /\ cachedHash' = IF exported # None THEN Invalidated(cachedHash) ELSE cachedHash
    /\ callOut' = Some([op |-> "import_identity", ret |-> exported # None,
                        source |-> exported, info |-> identityInfo',
                        cached |-> cachedHash'])
    /\ UNCHANGED <<lastHashTime, identEnv>>
    /\ IdentityFrame

\* ------------------------------------------------------ chain refresh ----
\* the reading of time.time(): whole seconds, and the instant within them
Clock(sec, fr) == [sec |-> sec, frac |-> fr]
Later(a, b) == a.sec > b.sec \/ (a.sec = b.sec /\ a.frac > b.frac)

\* a mutant: the lock is taken whoever holds it
AcquiredAlways(lock) == TRUE

\* update_lock.acquire(blocking=False) on a lock in this state
Acquired(lock) == lock = None

\* a mutant: the handler stamps its record with the epoch
HandlerInfoEpoch(resp, t) ==
    IF resp = None THEN None
    ELSE Some([block_hash |-> resp[1], retrieved_at |-> Clock(0, 0)])

\* a chain handler (_get_bitcoin_info ...): the endpoints' answer made into a
\* BlockchainInfo stamped with time.time(), None when every endpoint failed
HandlerInfo(resp, t) ==
    IF resp = None THEN None
    ELSE Some([block_hash |-> resp[1], retrieved_at |-> t])

\* the chains that have a handler in chain_handlers
SupportedChains == {"bitcoin", "ethereum", "litecoin"}

\* api_endpoints: the redundant endpoints configured for each chain, by
\* priority
ApiEndpoints ==
    [c \in SupportedChains |->
        CASE c = "bitcoin" -> <<"blockstream.info", "mempool.space", "blockcypher.com">>
          [] c = "ethereum" -> <<"etherscan.io", "blockcypher.com">>
          [] c = "litecoin" -> <<"blockcypher.com", "litecoinspace.org">>]

\* the endpoints a chain's handler requests, in the order of its code
HandlerEndpoints ==
    [c \in SupportedChains |->
        CASE c = "bitcoin" -> <<"blockstream.info", "mempool.space", "blockcypher.com">>
          [] c = "ethereum" -> <<"blockcypher.com">>
          [] c = "litecoin" -> <<"blockcypher.com">>]

Endpoints == UNION {Range(ApiEndpoints[c]) : c \in SupportedChains}

\* what a request to an endpoint comes to: a valid block, a status other
\* than 200, an exception of the transport, a body that does not parse
Responses == {"block", "status", "timeout", "garbage"}

\* the handler accepts the response: status 200 and the fields it reads
Valid(response) == response = "block"

\* a handler going through the endpoints left of its own: each is requested
\* unless one before it was accepted; the outcome is the endpoints requested
\* and the one whose block is returned, None when none was valid
RECURSIVE HandlerRequests(_, _, _)
HandlerRequests(left, answers, queried) ==
    IF left = <<>> THEN [queried |-> queried, source |-> None]
    ELSE IF Valid(answers[Head(left)])
         THEN [queried |-> Append(queried, Head(left)), source |-> Some(Head(left))]
         ELSE HandlerRequests(Tail(left), answers, Append(queried, Head(left)))

\* chain_handlers[chain](), the endpoints answering as in answers
CallHandler(c) ==
    /\ callOut # None
    /\ LET answers == callOut[1].answers
           out == HandlerRequests(HandlerEndpoints[c], answers, <<>>)
       IN callOut' = Some([op |-> "handler",
                           chain |-> c,
                           answers |-> answers,
                           queried |-> out.queried,
                           source |-> out.source])
    /\ UNCHANGED <<envVars, timeVars, identVars, chainVars, coreVars, threadVars>>
    /\ UNCHANGED <<held, retCount, verifyOut, since, seen, disp, reads>>

\* a mutant: a failed refresh drops the chain's record
StoredOrDropped(blocks, c, info) ==
    IF info # None
    THEN [k \in DOMAIN blocks \cup {c} |-> IF k = c THEN info[1] ELSE blocks[k]]
    ELSE [k \in DOMAIN blocks \ {c} |-> blocks[k]]

\* lines 231-233: cached_blocks after the handler returned info
Stored(blocks, c, info) ==
    IF info # None
    THEN [k \in DOMAIN blocks \cup {c} |-> IF k = c THEN info[1] ELSE blocks[k]]
    ELSE blocks

\* line 234: last_update after the handler returned info, at time t
Touched(lu, c, info, t) ==
    IF info # None
    THEN [k \in DOMAIN lu \cup {c} |-> IF k = c THEN t ELSE lu[k]]
    ELSE lu

\* the synchronous callers of _update_chain: the thread the constructor
\* starts on _initial_update, and a thread calling force_update
Updaters == {"initial", "forced"}

\* an updater outside any call.  todo is the chains its call has still to
\* update, count the _update_chain calls that returned True, replaced
\* whether one of them stored a record, info what its handler returned, skipped the chain and the lock's
\* holder of a call that found the lock busy, ret the value returned
NoUpdate == [at |-> "idle", todo |-> <<>>, info |-> None, count |-> 0,
             replaced |-> FALSE, skipped |-> None, ret |-> None]

\* the orders in which a for loop can go through the set enabled_chains
ChainOrders ==
    {order \in [1..Cardinality(EnabledChains) -> EnabledChains] :
        \A i, j \in DOMAIN order : i # j => order[i] # order[j]}

\* fetches in flight for chain c
InFlight(c) ==
    fetching[c] + Len(answered[c])
    + Cardinality({w \in Updaters : /\ upd[w].at \in {"fetch", "store"}
                                    /\ Head(upd[w].todo) = c})

\* the updater is through with the chain at the head of todo: the next
\* chain, or the return of _update_all_chains / force_update
UpdaterAfter(u, returned, stored) ==
    LET count == u.count + (IF returned THEN 1 ELSE 0)
        rest == Tail(u.todo)
    IN [u EXCEPT !.todo = rest,
                 !.count = count,
                 !.replaced = @ \/ stored,
                 !.at = IF rest = <<>> THEN "idle" ELSE "call",
                 !.ret = IF rest = <<>> THEN Some(count > 0) ELSE None]

\* force_update(chain), or force_update() when target is None: the call
ForceUpdate(target) ==
    /\ upd["forced"].at = "idle"
    /\ \E order \in ChainOrders :
          upd' = [upd EXCEPT !["forced"] =
                     [NoUpdate EXCEPT !.at = "call",
                                      !.todo = IF target = None THEN order
                                               ELSE <<target[1]>>]]
    /\ UNCHANGED <<envVars, timeVars, identVars, coreVars, threadVars, obsVars>>
    /\ UNCHANGED <<cachedBlocks, lastUpdate, updateLock, pending>>
    /\ UNCHANGED <<fetching, answered, attempts>>

\* _update_chain(c) in an updater, lines 222-227: the lock is taken and the
\* handler called, or the lock is busy and the call returns True
UpdaterBegin(w) ==
    /\ upd[w].at = "call"
    /\ LET c == Head(upd[w].todo)
       IN IF Acquired(updateLock)
          THEN /\ attempts[c] < MaxAttempts
               /\ updateLock' = Some(c)
               /\ attempts' = [attempts EXCEPT ![c] = @ + 1]
               /\ upd' = [upd EXCEPT ![w].at = "fetch"]
          ELSE /\ upd' = [upd EXCEPT ![w] =
                             UpdaterAfter([@ EXCEPT !.skipped =
                                              Some([chain |-> c,
                                                    holder |-> updateLock[1]])],
                                          TRUE, FALSE)]
               /\ UNCHANGED <<updateLock, attempts>>
    /\ UNCHANGED <<envVars, timeVars, identVars, coreVars, threadVars, obsVars>>
    /\ UNCHANGED <<cachedBlocks, lastUpdate, pending, fetching, answered>>

\* _update_chain(c) in an updater, lines 229-230: the handler returns its
\* record, stamped with the time of its return, or None
UpdaterAnswer(w) ==
    /\ upd[w].at = "fetch"
    /\ LET c == Head(upd[w].todo)
       IN upd' = [upd EXCEPT ![w].at = "store",
                             ![w].info = HandlerInfo(netChain[c],
                                                     Clock(now, frac + 1))]
    /\ frac' = frac + 1
    /\ UNCHANGED <<now, ticks, netTime, netChain, disk>>
    /\ UNCHANGED <<timeVars, identVars, coreVars, threadVars, obsVars>>
    /\ UNCHANGED <<cachedBlocks, lastUpdate, updateLock, pending>>
    /\ UNCHANGED <<fetching, answered, attempts>>

\* _update_chain(c) in an updater, lines 231-241: the record is stored if
\* there is one, the lock is released
UpdaterStore(w) ==
    /\ upd[w].at = "store"
    /\ LET c == Head(upd[w].todo)
           info == upd[w].info
       IN /\ cachedBlocks' = Stored(cachedBlocks, c, info)
          /\ lastUpdate' = Touched(lastUpdate, c, info, now)
          /\ upd' = [upd EXCEPT ![w] = UpdaterAfter([@ EXCEPT !.info = None],
                                                    info # None, info # None)]
    /\ updateLock' = None
    /\ UNCHANGED <<envVars, timeVars, identVars, coreVars, threadVars, obsVars>>
    /\ UNCHANGED <<pending, fetching, answered, attempts>>

\* a thread started by _update_if_needed runs _update_chain(c) up to its
\* handler's request: the lock is taken, or is busy and the call returns
UpdateChainBegin(c) ==
    /\ pending[c] > 0
    /\ pending' = [pending EXCEPT ![c] = @ - 1]
    /\ IF Acquired(updateLock)
       THEN /\ attempts[c] < MaxAttempts
            /\ updateLock' = Some(c)
            /\ fetching' = [fetching EXCEPT ![c] = @ + 1]
            /\ attempts' = [attempts EXCEPT ![c] = @ + 1]
       ELSE UNCHANGED <<updateLock, fetching, attempts>>
    /\ UNCHANGED <<envVars, timeVars, identVars, cachedBlocks, lastUpdate, upd>>
    /\ UNCHANGED answered
    /\ UNCHANGED <<coreVars, threadVars, obsVars>>

\* a sequence without its i-th element
Without(seq, i) ==
    [k \in 1..(Len(seq) - 1) |-> IF k < i THEN seq[k] ELSE seq[k + 1]]

\* the thread's handler returns its record or None: lines 229-230
UpdateChainAnswer(c) ==
    /\ fetching[c] > 0
    /\ fetching' = [fetching EXCEPT ![c] = @ - 1]
    /\ answered' = [answered EXCEPT ![c] =
                       Append(@, HandlerInfo(netChain[c], Clock(now, frac + 1)))]
    /\ frac' = frac + 1
    /\ UNCHANGED <<now, ticks, netTime, netChain, disk>>
    /\ UNCHANGED <<timeVars, identVars, coreVars, threadVars, obsVars>>
    /\ UNCHANGED <<cachedBlocks, lastUpdate, updateLock, pending, upd, attempts>>

\* the thread stores the record if there is one and releases the lock:
\* lines 231-241
UpdateChainStore(c) ==
    /\ answered[c] # <<>>
    /\ \E i \in DOMAIN answered[c] :
          LET info == answered[c][i]
          IN /\ cachedBlocks' = Stored(cachedBlocks, c, info)
             /\ lastUpdate' = Touched(lastUpdate, c, info, now)
             /\ answered' = [answered EXCEPT ![c] = Without(@, i)]
    /\ updateLock' = None
    /\ UNCHANGED <<envVars, timeVars, identVars, coreVars, threadVars, obsVars>>
    /\ UNCHANGED <<pending, fetching, upd, attempts>>

\* get_blockchain_hashes() called again and again, line 98: each call has
\* _update_if_needed start a thread for every enabled chain that is stale
PollHashes ==
    /\ CanSpawn(pending, lastUpdate, now)
    /\ pending' = UpdateIfNeeded(pending, lastUpdate, now)
    /\ pending' # pending
    /\ UNCHANGED <<envVars, timeVars, identVars, coreVars, threadVars, obsVars>>
    /\ UNCHANGED <<cachedBlocks, lastUpdate, updateLock>>
    /\ UNCHANGED <<fetching, answered, upd, attempts>>

\* a thread started by a poll runs _update_chain(c), lines 222-227: the
\* lock is taken and the handler called, or the lock is busy and the thread
\* returns
PolledBegin(c) ==
    /\ pending[c] > 0
    /\ pending' = [pending EXCEPT ![c] = @ - 1]
    /\ IF Acquired(updateLock)
       THEN /\ updateLock' = Some(c)
            /\ fetching' = [fetching EXCEPT ![c] = @ + 1]
       ELSE UNCHANGED <<updateLock, fetching>>
    /\ UNCHANGED <<envVars, timeVars, identVars, cachedBlocks, lastUpdate, upd>>
    /\ UNCHANGED <<answered, attempts>>
    /\ UNCHANGED <<coreVars, threadVars, obsVars>>

\* its handler returns a record or, every endpoint failing, None: lines
\* 229-230
PolledAnswer(c) ==
    /\ fetching[c] > 0
    /\ fetching' = [fetching EXCEPT ![c] = @ - 1]
    /\ answered' = [answered EXCEPT ![c] =
                       Append(@, HandlerInfo(netChain[c], Clock(now, frac)))]
    /\ UNCHANGED <<envVars, timeVars, identVars, coreVars, threadVars, obsVars>>
    /\ UNCHANGED <<cachedBlocks, lastUpdate, updateLock, pending, upd, attempts>>

\* a direct call is inside get_blockchain_hashes
Reading == callOut # None /\ callOut[1].at \in {"started", "iterating"}

\* get_blockchain_hashes() called by a thread of its own, line 98:
\* _update_if_needed starts its threads.  The outcome records the chains a
\* thread was started for and the verifier's state as the call found it.
ReadHashes ==
    /\ ~Reading
    /\ reads < MaxReads
    /\ CanSpawn(pending, lastUpdate, now)
    /\ pending' = UpdateIfNeeded(pending, lastUpdate, now)
    /\ reads' = reads + 1
    /\ callOut' = Some([op |-> "get_blockchain_hashes",
                        at |-> "started",
                        started |-> {c \in Chains : pending'[c] > pending[c]},
                        blocks |-> cachedBlocks,
                        last_update |-> lastUpdate,
                        now |-> now,
                        lock |-> updateLock,
                        size |-> 0,
                        visited |-> {},
                        hashes |-> [c \in {} |-> None]])
    /\ UNCHANGED <<envVars, timeVars, identVars, coreVars, threadVars>>
    /\ UNCHANGED <<cachedBlocks, lastUpdate, updateLock, refreshVars>>
    /\ UNCHANGED <<held, retCount, verifyOut, since, seen, disp>>

\* lines 100-105: one turn of the loop over cached_blocks.items().  The
\* iterator is made with the dict's size and gives its first item at once;
\* later turns find the size changed (RuntimeError), or the items
\* exhausted (the call returns), or the next item.
ReadHashesNext ==
    /\ Reading
    /\ LET r == callOut[1]
           keys == DOMAIN cachedBlocks
           left == keys \ r.visited
       IN IF r.at = "iterating" /\ Cardinality(keys) # r.size
          THEN callOut' = Some([r EXCEPT !.at = "raised"])
          ELSE IF left = {}
          THEN callOut' = Some([r EXCEPT !.at = "returned"])
          ELSE \E k \in left :
                  callOut' = Some([r EXCEPT
                      !.at = "iterating",
                      !.size = Cardinality(keys),
                      !.visited = @ \cup {k},
                      !.hashes = IF k \in EnabledChains
                                 THEN [c \in DOMAIN @ \cup {k} |->
                                          IF c = k
                                          THEN Some(cachedBlocks[k].block_hash)
                                          ELSE @[c]]
                                 ELSE @])
    /\ UNCHANGED <<envVars, timeVars, identVars, chainVars, coreVars, threadVars>>
    /\ UNCHANGED <<held, retCount, verifyOut, since, seen, disp, reads>>

\* every endpoint of a chain stops answering
EndpointsFail(c) ==
    /\ netChain[c] # None
    /\ netChain' = [netChain EXCEPT ![c] = None]
    /\ UNCHANGED <<now, frac, ticks, netTime, disk>>
    /\ UNCHANGED <<timeVars, identVars, chainVars, coreVars, threadVars, obsVars>>

\* an endpoint of the chain answers again, the chain's head being h
EndpointsAnswer(c, h) ==
    /\ netChain[c] = None
    /\ netChain' = [netChain EXCEPT ![c] = Some(h)]
    /\ UNCHANGED <<now, frac, ticks, netTime, disk>>
    /\ UNCHANGED <<timeVars, identVars, chainVars, coreVars, threadVars, obsVars>>

\* ------------------------------------------------------ initial states ----
\* the clock, the disk and the network when the components are constructed
InitEnv ==
    /\ now = StartTime
    /\ frac = 0
    /\ ticks = 0
    /\ disk = "v1"

\* QRLiveProtocol.__init__ and the threads before any call
InitCore ==
    /\ running = FALSE
    /\ seqNum = 0
    /\ currentQr = None
    /\ updateThread = None
    /\ pc = [t \in Threads |-> IF t \in LoopThreads THEN "none" ELSE "idle"]
    /\ loc = [t \in Threads |-> NoLocals]
    /\ ctl = "ready"
    /\ held = None
    /\ retCount = 0
    /\ verifyOut = None
    /\ since = [ticked |-> FALSE, mutated |-> FALSE]
    /\ callOut = None
    /\ reads = 0
    /\ seen = [o \in Observers |-> [prev |-> -1, last |-> -1]]
    /\ disp = [t \in LoopThreads |-> NoDispatch]

\* TimeProvider.__init__: the first sync, against the sources as they answer
InitTime ==
    LET first == SyncWithServers(<<>>, 0, netTime, now)
    IN /\ timeOffsets = first.offsets
       /\ lastSyncTime = first.last_sync
       /\ syncLock = None
       /\ syncers = [w \in Syncers |-> NoSync]

\* IdentityManager.__init__: a new identity, nothing cached
InitIdentity ==
    /\ identityInfo = CreateNewIdentity(disk, now)
    /\ cachedHash = None
    /\ lastHashTime = 0
    /\ hashAlgorithm = HashAlgorithm
    /\ files = [p \in Paths |-> None]
    /\ exported = None
    /\ hashers = [w \in Hashers |-> NoHash]

\* BlockchainVerifier.__init__ once its first update has stored every chain
InitChainsCached ==
    /\ cachedBlocks = [c \in EnabledChains |->
                          HandlerInfo(netChain[c], Clock(now, frac))[1]]
    /\ lastUpdate = [c \in EnabledChains |-> now]
    /\ updateLock = None
    /\ pending = [c \in Chains |-> 0]
    /\ fetching = [c \in Chains |-> 0]
    /\ answered = [c \in Chains |-> <<>>]
    /\ upd = [w \in Updaters |-> NoUpdate]
    /\ attempts = [c \in Chains |-> 0]

\* BlockchainVerifier some time after its construction: of the enabled
\* chains some have no record (their endpoints never answered), some a record
\* stored just now, some a record older than cache_duration
InitChainsPartial ==
    /\ \E got \in SUBSET EnabledChains : \E old \in SUBSET got :
          LET at(c) == IF c \in old THEN now - LongTick ELSE now
          IN /\ cachedBlocks = [c \in got |->
                                   HandlerInfo(netChain[c], Clock(at(c), 0))[1]]
             /\ lastUpdate = [c \in got |-> at(c)]
    /\ updateLock = None
    /\ pending = [c \in Chains |-> 0]
    /\ fetching = [c \in Chains |-> 0]
    /\ answered = [c \in Chains |-> <<>>]
    /\ upd = [w \in Updaters |-> NoUpdate]
    /\ attempts = [c \in Chains |-> 0]

\* BlockchainVerifier.__init__ as it returns: nothing cached, the thread on
\* _initial_update started
InitChainsEmpty ==
    /\ cachedBlocks = [c \in {} |-> None]
    /\ lastUpdate = [c \in {} |-> 0]
    /\ updateLock = None
    /\ pending = [c \in Chains |-> 0]
    /\ fetching = [c \in Chains |-> 0]
    /\ answered = [c \in Chains |-> <<>>]
    /\ upd \in {[w \in Updaters |->
                    IF w = "initial"
                    THEN [NoUpdate EXCEPT !.at = "call", !.todo = order]
                    ELSE NoUpdate] : order \in ChainOrders}
    /\ attempts = [c \in Chains |-> 0]

\* the components constructed with every source answering
InitQuiet ==
    /\ InitEnv
    /\ netTime = [s \in Servers |-> Some(0)]
    /\ netChain = [c \in Chains |-> Some(1)]
    /\ InitTime
    /\ InitIdentity
    /\ InitChainsCached
    /\ InitCore

\* the generation loop and one observer; the clock stands still
Init ==
    /\ InitQuiet
    /\ callbacks = <<>>

\* one step of a loop thread whose user-data provider is not set
LoopStep(t) ==
    \/ LoopHead(t, "unset")
    \/ Gather(t)
    \/ \E ok \in BOOLEAN : Encode(t, ok)
    \/ LoadSequence(t)
    \/ StoreSequence(t)
    \/ DispatchNext(t)
    \/ DispatchEnd(t)
    \/ Wake(t)

\* one step of a thread that calls generate_single_qr itself
CallerStep ==
    \/ CallGenerate(None)
    \/ Gather(DirectCaller)
    \/ \E ok \in BOOLEAN : Encode(DirectCaller, ok)
    \/ LoadSequence(DirectCaller)
    \/ StoreSequence(DirectCaller)

ControlStep ==
    \/ StartLiveGeneration
    \/ StopLiveGeneration
    \/ JoinReturns
    \/ JoinTimesOut

\* start and stop, the loop threads they leave running, and one observer
Next ==
    \/ \E t \in LoopThreads : LoopStep(t)
    \/ ControlStep
    \/ AddCallback("o2")

Spec == Init /\ [][Next]_vars

\* after add_update_callback(o1) and add_update_callback(o2)
InitObserved ==
    /\ InitQuiet
    /\ callbacks = <<"o1", "o2">>

\* start and stop and the loop threads, with the observers registered before
NextStop ==
    \/ \E t \in LoopThreads : LoopStep(t)
    \/ ControlStep

\* the scheduler runs every live loop thread: a sleep ends, a network read
\* times out, an encoder call and a callback return
FairSpec ==
    /\ InitObserved
    /\ [][NextStop]_vars
    /\ \A t \in LoopThreads : WF_vars(LoopStep(t))

\* one step of a loop thread whose user-data provider, component reads and
\* encoder may each fail
LoopStepFailing(t) ==
    \/ \E outcome \in ProviderOutcomes : LoopHead(t, outcome)
    \/ Gather(t)
    \/ GatherRaises(t)
    \/ \E ok \in BOOLEAN : Encode(t, ok)
    \/ LoadSequence(t)
    \/ StoreSequence(t)
    \/ DispatchNext(t)
    \/ DispatchEnd(t)
    \/ Wake(t)

\* start and stop around a loop whose iterations may fail, the observers
\* registered before and every stop waiting for the thread to end
NextFailing ==
    \/ \E t \in LoopThreads : LoopStepFailing(t)
    \/ StartLiveGeneration
    \/ StopLiveGeneration
    \/ JoinReturns

\* the scheduler runs every live loop thread: a sleep ends, a call returns
\* or raises
FairSpecFailing ==
    /\ InitObserved
    /\ [][NextFailing]_vars
    /\ \A t \in LoopThreads : WF_vars(LoopStepFailing(t))

\* direct calls of generate_single_qr as the clock advances, with observers
\* added and removed between and during them
NextDirect ==
    \/ CallerStep
    \/ \E d \in ShortTicks : Tick(d)
    \/ \E o \in Observers : AddCallback(o)
    \/ \E o \in Observers : RemoveCallback(o)

SpecDirect == Init /\ [][NextDirect]_vars

\* the endpoints answer in any one way
InitEndpoints ==
    /\ InitEnv
    /\ netTime = [sv \in Servers |-> Some(0)]
    /\ netChain = [c \in Chains |-> Some(1)]
    /\ InitTime
    /\ InitIdentity
    /\ InitChainsCached
    /\ running = FALSE
    /\ seqNum = 0
    /\ currentQr = None
    /\ updateThread = None
    /\ callbacks = <<>>
    /\ pc = [t \in Threads |-> IF t \in LoopThreads THEN "none" ELSE "idle"]
    /\ loc = [t \in Threads |-> NoLocals]
    /\ ctl = "ready"
    /\ held = None
    /\ retCount = 0
    /\ verifyOut = None
    /\ since = [ticked |-> FALSE, mutated |-> FALSE]
    /\ callOut \in {Some([op |-> "endpoints", answers |-> a]) :
                       a \in [Endpoints -> Responses]}
    /\ reads = 0
    /\ seen = [o \in Observers |-> [prev |-> -1, last |-> -1]]
    /\ disp = [t \in LoopThreads |-> NoDispatch]

\* each chain's handler called against them
NextEndpoints == \E c \in SupportedChains : CallHandler(c)

SpecEndpoints == InitEndpoints /\ [][NextEndpoints]_vars

\* a thread calling generate_single_qr while the loop runs
NextRace ==
    \/ StartLiveGeneration
    \/ \E t \in LoopThreads : LoopStep(t)
    \/ CallerStep

SpecRace == InitObserved /\ [][NextRace]_vars

\* one thread calling generate_single_qr as the clock advances, its calls
\* returning or failing in a component read or in the encoder
NextSingle ==
    \/ CallerStep
    \/ GatherRaises(DirectCaller)
    \/ \E d \in ShortTicks : Tick(d)

SpecSingle == Init /\ [][NextSingle]_vars

\* the verifier with every enabled chain's record missing or stale, and
\* the endpoints of one chain at least answering
InitStale ==
    /\ InitEnv
    /\ netTime = [sv \in Servers |-> Some(0)]
    /\ netChain \in {net \in [Chains -> {None, Some(1)}] :
                        \E c \in Chains : net[c] # None}
    /\ InitTime
    /\ InitIdentity
    /\ \E got \in SUBSET EnabledChains :
          /\ cachedBlocks = [c \in got |->
                                [block_hash |-> 0,
                                 retrieved_at |-> Clock(now - LongTick, 0)]]
          /\ lastUpdate = [c \in got |-> now - LongTick]
    /\ updateLock = None
    /\ pending = [c \in Chains |-> 0]
    /\ fetching = [c \in Chains |-> 0]
    /\ answered = [c \in Chains |-> <<>>]
    /\ upd = [w \in Updaters |-> NoUpdate]
    /\ attempts = [c \in Chains |-> 0]
    /\ InitCore
    /\ callbacks = <<>>

\* the hashes read again and again, the refresh threads the reads start,
\* and the chains growing
NextPolling ==
    \/ PollHashes
    \/ \E c \in Chains : PolledBegin(c)
    \/ \E c \in Chains : PolledAnswer(c)
    \/ \E c \in Chains : UpdateChainStore(c)
    \/ \E c \in Chains : NewBlock(c)

\* get_blockchain_hashes keeps being called and the scheduler runs every
\* thread that was started: its try of the lock, its handler's return (a
\* request ends or times out), its store
FairSpecPolling ==
    /\ InitStale
    /\ [][NextPolling]_vars
    /\ WF_vars(PollHashes)
    /\ \A c \in Chains :
          /\ WF_vars(PolledBegin(c))
          /\ WF_vars(PolledAnswer(c))
          /\ WF_vars(UpdateChainStore(c))

\* one loop thread and an observer list that changes under it
NextDispatch ==
    \/ StartLiveGeneration
    \/ \E t \in LoopThreads : LoopStep(t)
    \/ \E o \in Observers : AddCallback(o)
    \/ \E o \in Observers : RemoveCallback(o)

SpecDispatch == Init /\ [][NextDispatch]_vars

\* the components constructed with the time sources answering anything
InitVerify ==
    /\ InitEnv
    /\ netTime \in [Servers -> {None} \cup {Some(o) : o \in Offsets}]
    /\ netChain = [c \in Chains |-> Some(1)]
    /\ InitTime
    /\ InitIdentity
    /\ InitChainsCached
    /\ InitCore
    /\ callbacks = <<>>

\* one thread that generates and verifies, with no loop running, while the
\* clock and the time sources change
NextVerify ==
    \/ CallerStep
    \/ VerifyHeld
    \/ VerifyMalformed
    \/ Tick(TimeUpdateInterval + 1)
    \/ \E s \in Servers, r \in {None} \cup {Some(o) : o \in Offsets} :
           NetTimeChange(s, r)

SpecVerify == InitVerify /\ [][NextVerify]_vars

\* forced time syncs while the sources come, go and drift and the clock
\* advances
NextSync ==
    \/ ForceSync
    \/ Tick(TimeUpdateInterval + 1)
    \/ \E s \in Servers, r \in {None} \cup {Some(o) : o \in Offsets} :
           NetTimeChange(s, r)

SpecSync == InitVerify /\ [][NextSync]_vars

\* two threads that force time syncs while the sources come, go and drift
\* and the clock advances
NextSyncLock ==
    \/ \E w \in Syncers : SyncCall(w)
    \/ \E w \in Syncers : SyncQuery(w)
    \/ \E w \in Syncers : SyncFinish(w)
    \/ Tick(TimeUpdateInterval + 1)
    \/ \E s \in Servers, r \in {None} \cup {Some(o) : o \in Offsets} :
           NetTimeChange(s, r)

SpecSyncLock == InitVerify /\ [][NextSyncLock]_vars

\* a provider whose last sync left any consensus of the configured sources
InitMedian ==
    /\ InitEnv
    /\ netTime = [s \in Servers |-> Some(0)]
    /\ netChain = [c \in Chains |-> Some(1)]
    /\ timeOffsets \in UNION {[D -> MedianOffsets] : D \in SUBSET MedianSources}
    /\ lastSyncTime = now
    /\ syncLock = None
    /\ syncers = [w \in Syncers |-> NoSync]
    /\ InitIdentity
    /\ InitChainsCached
    /\ InitCore
    /\ callbacks = <<>>

\* reads of the current time as the clock advances
NextMedian ==
    \/ GetTime
    \/ Tick(TimeUpdateInterval)

SpecMedian == InitMedian /\ [][NextMedian]_vars

\* a builder with the default algorithm beside one other file, and a document
\* exported earlier by a builder of another machine
InitFiles ==
    /\ InitEnv
    /\ netTime = [s \in Servers |-> Some(0)]
    /\ netChain = [c \in Chains |-> Some(1)]
    /\ InitTime
    /\ identityInfo = CreateNewIdentity(disk, now)
    /\ cachedHash = None
    /\ lastHashTime = 0
    /\ hashAlgorithm = HashAlgorithm
    /\ files \in [Paths -> FileStates]
    /\ exported \in {None, Some(ForeignExport)}
    /\ hashers = [w \in Hashers |-> NoHash]
    /\ InitChainsCached
    /\ InitCore
    /\ callbacks = <<>>

\* a single caller of the identity manager, while the files change and the
\* freshness window of a digest passes, once
NextFiles ==
    \/ GetHash
    \/ \E p \in Paths, alias \in Aliases : AddFile(p, alias)
    \/ \E key \in FileKeys : RemoveFile(key)
    \/ \E v \in CustomValues : UpdateCustomData("note", v)
    \/ ImportIdentity
    \/ \E v \in FileContents : DiskWrite(v)
    \/ \E p \in Paths, f \in FileStates : FileChange(p, f)
    \/ ticks = 0 /\ Tick(IdentityCacheSeconds)

SpecFiles == InitFiles /\ [][NextFiles]_vars

\* two threads that call get_identity_hash while a third updates the custom
\* data and the clock advances
NextHashRace ==
    \/ \E w \in Hashers : HashCall(w)
    \/ \E w \in Hashers : HashGenerate(w)
    \/ \E w \in Hashers : HashStore(w)
    \/ \E w \in Hashers : HashReturn(w)
    \/ \E v \in CustomValues : UpdateCustomData("note", v)
    \/ Tick(IdentityCacheSeconds)

SpecHashRace == InitFiles /\ [][NextHashRace]_vars

\* a builder configured with any algorithm name, beside one other file
InitAlgorithms ==
    /\ InitEnv
    /\ netTime = [s \in Servers |-> Some(0)]
    /\ netChain = [c \in Chains |-> Some(1)]
    /\ InitTime
    /\ hashAlgorithm \in Algorithms
    /\ identityInfo = CreateNewIdentityOf(hashAlgorithm, disk, now)
    /\ cachedHash = None
    /\ lastHashTime = 0
    /\ files \in [Paths -> FileStates]
    /\ exported = None
    /\ hashers = [w \in Hashers |-> NoHash]
    /\ InitChainsCached
    /\ InitCore
    /\ callbacks = <<>>

\* a single caller that adds files and custom data and asks for the digest
NextAlgorithms ==
    \/ GetHash
    \/ \E p \in Paths, alias \in Aliases : AddFile(p, alias)
    \/ \E v \in CustomValues : UpdateCustomData("note", v)
    \/ \E p \in Paths, f \in FileStates : FileChange(p, f)

SpecAlgorithms == InitAlgorithms /\ [][NextAlgorithms]_vars

\* a single caller that updates the custom data, exports the identity and
\* imports what was exported
NextExport ==
    \/ GetHash
    \/ \E v \in PyValues : UpdateCustomData("note", v)
    \/ ExportIdentity
    \/ ImportIdentity
    \/ ticks = 0 /\ Tick(IdentityCacheSeconds)

SpecExport == InitFiles /\ [][NextExport]_vars

\* a caller that holds any packet
InitJson ==
    /\ InitEnv
    /\ netTime = [s \in Servers |-> Some(0)]
    /\ netChain = [c \in Chains |-> Some(1)]
    /\ InitTime
    /\ InitIdentity
    /\ InitChainsCached
    /\ running = FALSE
    /\ seqNum = 0
    /\ currentQr = None
    /\ updateThread = None
    /\ callbacks = <<>>
    /\ pc = [t \in Threads |-> IF t \in LoopThreads THEN "none" ELSE "idle"]
    /\ loc = [t \in Threads |-> NoLocals]
    /\ ctl = "ready"
    /\ held \in {Some(p) : p \in Packets}
    /\ retCount = 0
    /\ verifyOut = None
    /\ since = [ticked |-> FALSE, mutated |-> FALSE]
    /\ callOut = None
    /\ reads = 0
    /\ seen = [o \in Observers |-> [prev |-> -1, last |-> -1]]
    /\ disp = [t \in LoopThreads |-> NoDispatch]

\* the packet is serialized and read back
NextJson == RoundTrip

SpecJson == InitJson /\ [][NextJson]_vars

\* one thread that generates, and verifies what it generated and forgeries
\* of it, as the clock advances
NextCrafted ==
    \/ CallerStep
    \/ VerifyHeld
    \/ VerifyCrafted
    \/ \E d \in ShortTicks : Tick(d)

SpecCrafted == Init /\ [][NextCrafted]_vars

\* one thread that generates and verifies while the clock, the identity file
\* and the identity's custom data change
NextIdentity ==
    \/ CallerStep
    \/ VerifyHeld
    \/ \E d \in ShortTicks : Tick(d)
    \/ \E v \in FileContents : DiskWrite(v)
    \/ \E v \in CustomValues : UpdateCustomData("note", v)

SpecIdentity == Init /\ [][NextIdentity]_vars

\* one thread that generates and verifies while the chain cache goes stale,
\* once, and the refresh threads it starts run
NextChains ==
    \/ CallerStep
    \/ VerifyHeld
    \/ ticks = 0 /\ Tick(LongTick)
    \/ \E c \in Chains : NewBlock(c)
    \/ \E c \in Chains : UpdateChainBegin(c)
    \/ \E c \in Chains : UpdateChainAnswer(c)
    \/ \E c \in Chains : UpdateChainStore(c)

SpecChains == Init /\ [][NextChains]_vars

\* the verifier as its constructor returns
InitForce ==
    /\ InitEnv
    /\ netTime = [s \in Servers |-> Some(0)]
    /\ netChain = [c \in Chains |-> Some(1)]
    /\ InitTime
    /\ InitIdentity
    /\ InitChainsEmpty
    /\ InitCore
    /\ callbacks = <<>>

\* the initial update and forced updates, within one second of the clock,
\* while the chains' endpoints come and go
NextForce ==
    \/ \E target \in {None} \cup {Some(c) : c \in Chains} : ForceUpdate(target)
    \/ \E w \in Updaters : UpdaterBegin(w)
    \/ \E w \in Updaters : UpdaterAnswer(w)
    \/ \E w \in Updaters : UpdaterStore(w)
    \/ \E c \in Chains : EndpointsFail(c)
    \/ \E c \in Chains : EndpointsAnswer(c, 1)

SpecForce == InitForce /\ [][NextForce]_vars

\* the verifier after its first update, every endpoint answering by now
InitReads ==
    /\ InitEnv
    /\ netTime = [s \in Servers |-> Some(0)]
    /\ netChain = [c \in Chains |-> Some(1)]
    /\ InitTime
    /\ InitIdentity
    /\ InitChainsPartial
    /\ InitCore
    /\ callbacks = <<>>

\* direct reads of the hashes and the refresh threads they start
NextReads ==
    \/ ReadHashes
    \/ ReadHashesNext
    \/ \E c \in Chains : UpdateChainBegin(c)
    \/ \E c \in Chains : UpdateChainAnswer(c)
    \/ \E c \in Chains : UpdateChainStore(c)

SpecReads == InitReads /\ [][NextReads]_vars

\* a verifier just constructed whose hashes were read once: the cache is
\* still empty, so the read started a refresh thread for every chain
InitRefresh ==
    /\ InitEnv
    /\ netTime = [s \in Servers |-> Some(0)]
    /\ netChain = [c \in Chains |-> Some(1)]
    /\ InitTime
    /\ InitIdentity
    /\ cachedBlocks = [c \in {} |-> None]
    /\ lastUpdate = [c \in {} |-> 0]
    /\ updateLock = None
    /\ pending = UpdateIfNeeded([c \in Chains |-> 0], lastUpdate, now)
    /\ fetching = [c \in Chains |-> 0]
    /\ answered = [c \in Chains |-> <<>>]
    /\ upd \in {[w \in Updaters |->
                    IF w = "initial"
                    THEN [NoUpdate EXCEPT !.at = "call", !.todo = order]
                    ELSE NoUpdate] : order \in ChainOrders}
    /\ attempts = [c \in Chains |-> 0]
    /\ InitCore
    /\ callbacks = <<>>

\* the initial update, forced updates and the refresh threads of a read,
\* the endpoints answering throughout
NextRefresh ==
    \/ \E target \in {None} \cup {Some(c) : c \in Chains} : ForceUpdate(target)
    \/ \E w \in Updaters : UpdaterBegin(w)
    \/ \E w \in Updaters : UpdaterAnswer(w)
    \/ \E w \in Updaters : UpdaterStore(w)
    \/ \E c \in Chains : UpdateChainBegin(c)
    \/ \E c \in Chains : UpdateChainAnswer(c)
    \/ \E c \in Chains : UpdateChainStore(c)

SpecRefresh == InitRefresh /\ [][NextRefresh]_vars

\* ------------------------------------------------------------- claims ----

\* C1: with generate_single_qr called from one thread only, the packet a
\* successful call returns has sequence_number one greater than that of the
\* successful call before it, the first call returning 0: the n-th returned
\* packet carries n - 1, and the counter stands at n.
C1_SequenceCountsReturns ==
    /\ held # None => held[1].sequence_number = retCount - 1
    /\ pc[DirectCaller] = "idle" => seqNum = retCount

\* a second successful call has returned
C1_Witness == retCount = 2 /\ held # None /\ held[1].sequence_number = 1

\* C2: every observer receives the packets the loop dispatches in strictly
\* increasing sequence_number order: the number an observer (registered
\* once) has just received is greater than the one it received before.
C2_ObserversSeeIncreasingSequence ==
    \A o \in Observers :
        (Count(o, callbacks) = 1 /\ seen[o].last >= 0) => seen[o].prev < seen[o].last

\* C3: at any time at most one generation loop thread is alive, whatever
\* the sequence of start_live_generation and stop_live_generation calls.
C3_AtMostOneLoopThread ==
    Cardinality({t \in LoopThreads : Alive(t)}) <= 1

C4_NoNewIteration ==
    \A t \in LoopThreads :
        /\ (pc[t] = "head" /\ pc'[t] = "gather") => running
        /\ (Alive(t) /\ pc'[t] = "none") => (pc[t] = "head" /\ ~running)
        /\ InIteration(t) =>
               pc'[t] \in {"gather", "encode", "load", "store", "dispatch", "sleep"}

C4_PacketStillDispatched ==
    \A t \in LoopThreads :
        (pc[t] = "sleep" /\ disp[t].generated /\ disp[t].stopped /\ ~disp[t].mutated)
            => disp[t].invoked = callbacks

\* C4: once stop_live_generation has cleared the flag, a loop thread begins
\* no iteration and leaves only at its while test; the iteration under way
\* runs to its end, its packet going to every observer of the list; and
\* unless a later start sets the flag again the thread ends.
C4_StopIsCooperative ==
    /\ [][C4_NoNewIteration]_vars
    /\ []C4_PacketStillDispatched
    /\ \A t \in LoopThreads : (Alive(t) /\ ~running) ~> (running \/ ~Alive(t))

\* a stop arrived during an iteration whose packet then reached an observer
C4_Witness ==
    \E t \in LoopThreads :
        /\ pc[t] = "sleep" /\ disp[t].generated /\ disp[t].stopped
        /\ ~running
        /\ disp[t].invoked = <<"o1", "o2">>

\* C5: in an iteration of the loop every registered observer is invoked
\* exactly once, in registration order, an observer that raises included
\* and not stopping those after it: while the list is left alone the
\* observers invoked are the list up to the iterator's position, and the
\* whole list once the thread is in its sleep.
C5_EveryObserverInOrder ==
    \A t \in LoopThreads :
        (Dispatching(t) /\ ~disp[t].mutated) =>
            /\ disp[t].invoked = SubSeq(callbacks, 1, Len(disp[t].invoked))
            /\ pc[t] = "sleep" => disp[t].invoked = callbacks

\* a dispatch is over in which o1 raised and o2, registered after it, ran
C5_Witness ==
    \E t \in LoopThreads :
        /\ pc[t] = "sleep" /\ disp[t].generated /\ ~disp[t].mutated
        /\ callbacks = <<"o1", "o2">>
        /\ disp[t].invoked = <<"o1", "o2">>

\* C6: when observers are added or removed while a dispatch is in progress,
\* every observer that stays registered throughout the dispatch has been
\* invoked exactly once when it is over.
C6_StableObserversOnce ==
    \A t \in LoopThreads :
        (pc[t] = "sleep" /\ disp[t].generated) =>
            \A o \in disp[t].stable : Count(o, disp[t].invoked) = 1

\* the caller's last verification was of the packet it holds
VerifiedHeld == verifyOut # None /\ verifyOut[1].input = "packet"

\* C7: verifying the packet generate_single_qr returned, with no identity
\* mutation in between, reports identity_verified, whether the digest came
\* from the cache or was recomputed.
C7_IdentityVerified ==
    (VerifiedHeld /\ ~verifyOut[1].since.mutated)
        => verifyOut[1].results.identity_verified

\* the digest was recomputed at verification, the clock having moved on
\* since the packet was generated
C7_Witness ==
    /\ VerifiedHeld
    /\ ~verifyOut[1].since.mutated
    /\ verifyOut[1].since.ticked
    /\ lastHashTime = now
    /\ verifyOut[1].results.identity_verified

\* C8: verifying the packet generate_single_qr has just returned reports
\* time_verified, whatever the offsets of the time sources.
C8_TimeVerified ==
    (VerifiedHeld /\ ~verifyOut[1].since.ticked)
        => verifyOut[1].results.time_verified

\* C9: verifying the packet generate_single_qr has just returned, when it
\* carries chain hashes, reports blockchain_verified, whatever refresh
\* threads ran in between.
C9_BlockchainVerified ==
    (/\ VerifiedHeld
     /\ ~verifyOut[1].since.ticked
     /\ DOMAIN held[1].blockchain_hashes # {})
        => verifyOut[1].results.blockchain_verified

\* C10: verify_qr_data raises nothing; given an input that is no packet it
\* returns valid_json false with an error and the three verdicts false.
C10_MalformedIsReported ==
    (verifyOut # None /\ verifyOut[1].input = "malformed") =>
        /\ verifyOut[1].raised = ""
        /\ ~verifyOut[1].results.valid_json
        /\ verifyOut[1].results.error # ""
        /\ ~verifyOut[1].results.identity_verified
        /\ ~verifyOut[1].results.time_verified
        /\ ~verifyOut[1].results.blockchain_verified


\* C11: for a parsed packet blockchain_verified is true exactly when some
\* chain of the packet carries the hash cached for that enabled chain; a
\* chain with no cached hash matches nothing, null included, and the empty
\* map gives false.
C11_BlockchainVerifiedIffCachedMatch ==
    (verifyOut # None /\ verifyOut[1].results.valid_json) =>
        (verifyOut[1].results.blockchain_verified <=>
            \E c \in (DOMAIN verifyOut[1].hashes \cap EnabledChains)
                        \cap DOMAIN verifyOut[1].blocks :
                verifyOut[1].hashes[c] =
                    Some(verifyOut[1].blocks[c].block_hash))

\* C12: a call of verify_qr_data leaves the sequence counter, the last
\* packet, the running flag, the observer list, the identity's inputs and
\* every cached chain record as they were.
C12_VerifyChangesNothing ==
    [][(verifyOut' # verifyOut /\ verifyOut' # None) =>
          /\ UNCHANGED <<seqNum, currentQr, running, callbacks>>
          /\ UNCHANGED <<identityInfo, cachedBlocks, lastUpdate>>]_vars

\* a packet was generated and then verified, and the verification started a
\* refresh thread for a stale chain
C12_Witness ==
    /\ verifyOut # None
    /\ verifyOut[1].results.valid_json
    /\ verifyOut[1].started # {}
    /\ currentQr # None
    /\ seqNum > 0

\* C13: at most one refresh is in flight for a chain at any time, and the
\* refresh in flight is the lock's holder: a request that finds the lock
\* busy starts no fetch and is over at once.
C13_OneRefreshInFlight ==
    /\ \A c \in Chains : InFlight(c) <= 1
    /\ \A w \in Updaters :
          upd[w].at \in {"fetch", "store"} =>
              updateLock = Some(Head(upd[w].todo))

\* a forced update of a chain returned while that chain's refresh was in
\* flight in the initial update
C13_Witness ==
    /\ upd["forced"].skipped # None
    /\ upd["forced"].skipped[1].chain = upd["forced"].skipped[1].holder
    /\ upd["forced"].ret # None
    /\ upd["initial"].at = "fetch"

\* C14: a request to refresh a chain is skipped only for a refresh of that
\* same chain; a refresh in flight for another chain leaves it to do its own
\* fetch and report its own outcome.
C14_ExclusionPerChain ==
    \A w \in Updaters :
        upd[w].skipped # None =>
            upd[w].skipped[1].chain = upd[w].skipped[1].holder

\* C16: force_update returns true exactly when a record was replaced during
\* the call.
C16_ForceUpdateReportsReplacement ==
    upd["forced"].ret # None =>
        (upd["forced"].ret[1] <=> upd["forced"].replaced)

\* C17: no step removes a cached record, and the step that ends a refresh
\* whose handler returned None (every endpoint failed) changes neither the
\* cached records nor the last-update times: a record stays as it is, an
\* absent one stays absent.
C17_FailedRefreshKeepsCache ==
    [][/\ \A c \in DOMAIN cachedBlocks : c \in DOMAIN cachedBlocks'
       /\ \A w \in Updaters :
             (upd[w].at = "store" /\ upd[w].info = None /\ upd'[w] # upd[w])
                => UNCHANGED <<cachedBlocks, lastUpdate>>
       /\ \A c \in Chains :
             (/\ Len(answered'[c]) < Len(answered[c])
              /\ \A i \in DOMAIN answered[c] : answered[c][i] = None)
                => UNCHANGED <<cachedBlocks, lastUpdate>>]_vars

\* a forced update has failed on every chain it tried while every chain's
\* record was cached and every endpoint dead
C17_Witness ==
    /\ upd["forced"].ret = Some(FALSE)
    /\ ~upd["forced"].replaced
    /\ upd["forced"].skipped = None
    /\ DOMAIN cachedBlocks = EnabledChains
    /\ \A c \in Chains : netChain[c] = None

\* C19: whenever a refresh stores a record over a chain's cached record,
\* the new record's retrieved_at is later than the old one's.
C19_RetrievedAtIncreases ==
    [][\A c \in DOMAIN cachedBlocks :
          LET byUpdater == {upd[w].info : w \in {w \in Updaters :
                                /\ upd[w].at = "store"
                                /\ Head(upd[w].todo) = c
                                /\ upd'[w] # upd[w]}}
              byThread == {answered[c][i] : i \in {i \in DOMAIN answered[c] :
                                answered'[c] = Without(answered[c], i)}}
          IN \A info \in (byUpdater \cup byThread) \ {None} :
                Later(cachedBlocks'[c].retrieved_at,
                      cachedBlocks[c].retrieved_at)]_vars

\* the initial update stored a record for every chain and a forced update
\* stored one more: some chain's record has been replaced
C19_Witness ==
    /\ upd["initial"].ret # None
    /\ upd["initial"].skipped = None
    /\ upd["initial"].count = Cardinality(EnabledChains)
    /\ upd["forced"].replaced

\* C15: however two calls of get_blockchain_hashes and the threads they
\* start interleave, a chain whose record the calls found stale is fetched
\* at most once.
C15_OneAttemptForTwoReads ==
    (callOut # None /\ reads <= MaxReads) =>
        \A c \in DOMAIN callOut[1].blocks : attempts[c] <= 1

\* C18: a call of get_blockchain_hashes raises nothing, starts a refresh
\* thread for exactly the enabled chains whose record was missing or older
\* than cache_duration when it was called, and returns hashes of enabled
\* chains only.
C18_ReadReturnsCached ==
    (callOut # None /\ callOut[1].op = "get_blockchain_hashes") =>
        /\ callOut[1].at # "raised"
        /\ callOut[1].started =
              {c \in EnabledChains :
                  \/ c \notin DOMAIN callOut[1].blocks
                  \/ callOut[1].now - callOut[1].last_update[c] > CacheDuration}
        /\ DOMAIN callOut[1].hashes \subseteq EnabledChains

\* C20: after a time sync in which some source answered, the offsets are
\* those of exactly the sources that answered in that round, with that
\* round's values; a source that had answered before and failed now is gone.
C20_OffsetsAreThisRounds ==
    (callOut # None /\ callOut[1].op = "force_sync" /\ callOut[1].ret) =>
        LET answered_now == {s \in Servers : callOut[1].responses[s] # None}
        IN /\ DOMAIN timeOffsets = answered_now
           /\ \A s \in answered_now :
                 timeOffsets[s] = callOut[1].responses[s][1]

\* a sync succeeded in which a source that had an offset did not answer
C20_Witness ==
    /\ callOut # None
    /\ callOut[1].op = "force_sync"
    /\ callOut[1].ret
    /\ \E s \in DOMAIN callOut[1].before : callOut[1].responses[s] = None

C22_OneSyncInProgress ==
    /\ [](/\ Cardinality({w \in Syncers : syncers[w].at = "query"}) <= 1
          /\ \A w \in Syncers : syncers[w].at = "query" => syncLock = Some(w)
          /\ syncLock # None => syncers[syncLock[1]].at = "query"
          /\ \A w \in Syncers :
                syncers[w].skipped => /\ syncers[w].queried = 0
                                      /\ syncers[w].counted = NoCounts
                                      /\ syncers[w].at = "idle")
    /\ [][\A w \in Syncers :
            (syncers'[w] # syncers[w] /\ syncers'[w].skipped)
                => UNCHANGED <<timeOffsets, lastSyncTime, syncLock>>]_vars

\* a call was skipped for a sync in progress; that sync has ended since and
\* released the lock
C22_Witness ==
    /\ syncers["sync1"].skipped
    /\ syncers["sync2"].at = "idle"
    /\ syncers["sync2"].counted.total = 1
    /\ syncLock = None

\* the number of offsets of a consensus that are at most, at least, x
AtMost(offs, x) == Cardinality({s \in DOMAIN offs : offs[s] <= x})
AtLeast(offs, x) == Cardinality({s \in DOMAIN offs : offs[s] >= x})

\* the lower and the upper middle value of a non-empty consensus: the least
\* value with half of the offsets at or below it, the greatest value with
\* half of them at or above it
LowerMiddle(offs) ==
    CHOOSE x \in Range(offs) :
        /\ 2 * AtMost(offs, x) >= Cardinality(DOMAIN offs)
        /\ \A y \in Range(offs) :
               2 * AtMost(offs, y) >= Cardinality(DOMAIN offs) => x <= y
UpperMiddle(offs) ==
    CHOOSE x \in Range(offs) :
        /\ 2 * AtLeast(offs, x) >= Cardinality(DOMAIN offs)
        /\ \A y \in Range(offs) :
               2 * AtLeast(offs, y) >= Cardinality(DOMAIN offs) => y <= x

\* C23: get_current_time returns the local clock plus the median of the
\* offsets of the last sync: the middle value for an odd count, the average
\* of the two middle values for an even count, 0 for no offsets, and the one
\* offset unchanged when there is a single one.
C23_CurrentTimeIsLocalPlusMedian ==
    (callOut # None /\ callOut[1].op = "get_current_time") =>
        LET offs == callOut[1].offsets
            n == Cardinality(DOMAIN offs)
            ret == callOut[1].ret
            local == Float(callOut[1].local)
        IN /\ n = 0 => ret = local
           /\ n = 1 => \A s \in DOMAIN offs : ret = local + Float(offs[s])
           /\ (n > 0 /\ n % 2 = 1) =>
                  /\ LowerMiddle(offs) = UpperMiddle(offs)
                  /\ ret = local + Float(LowerMiddle(offs))
           /\ (n > 0 /\ n % 2 = 0) =>
                  2 * (ret - local) = Float(LowerMiddle(offs))
                                    + Float(UpperMiddle(offs))

\* the time was read from four offsets whose two middle values are 1 and 2:
\* the median is 1.5
C23_Witness ==
    /\ callOut # None
    /\ callOut[1].op = "get_current_time"
    /\ Cardinality(DOMAIN callOut[1].offsets) = 4
    /\ LowerMiddle(callOut[1].offsets) = 1
    /\ UpperMiddle(callOut[1].offsets) = 2
    /\ callOut[1].ret = Float(callOut[1].local) + 3

\* the last call was get_identity_hash, add_file_to_identity, import_identity
GotHash == callOut # None /\ callOut[1].op = "get_identity_hash"
AddedFile == callOut # None /\ callOut[1].op = "add_file_to_identity"
Imported == callOut # None /\ callOut[1].op = "import_identity"

\* C24: when the bytes of the tracked file have been modified between two
\* get_identity_hash calls, the second returns a digest different from the
\* first's, and the stored entries of the other tracked files are unchanged.
C24_ModifiedFileChangesDigest ==
    (/\ GotHash
     /\ callOut[1].prev # None
     /\ "identity_file" \in DOMAIN callOut[1].info.file_hashes
     /\ callOut[1].prev[1].info = callOut[1].info
     /\ callOut[1].prev[1].disk # callOut[1].disk)
        => /\ callOut[1].ret # callOut[1].prev[1].ret
           /\ \A k \in DOMAIN callOut[1].info.file_hashes \ {"identity_file"} :
                  identityInfo.file_hashes[k] = callOut[1].prev[1].info.file_hashes[k]

\* C25: with a single caller, get_identity_hash returns the hash of the
\* identity as it is at the call (system descriptors, file hashes, custom
\* fields, creation time), whatever add_file_to_identity,
\* remove_file_from_identity, update_custom_data and import_identity calls
\* came before: a digest cached before a mutation is not returned after it.
C25_DigestIsOfCurrentState ==
    /\ GotHash =>
           callOut[1].ret = GenerateIdentityHashOf(hashAlgorithm, callOut[1].info)
    /\ cachedHash # None =>
           cachedHash[1] = GenerateIdentityHashOf(hashAlgorithm, identityInfo)

\* a digest was returned for an identity with an added file and a custom
\* field, inside the freshness window of an earlier digest
C25_Witness ==
    /\ GotHash
    /\ callOut[1].prev = None
    /\ "doc" \in DOMAIN callOut[1].info.file_hashes
    /\ "note" \in DOMAIN callOut[1].info.custom_data
    /\ lastHashTime = now
    /\ ticks = 0

\* C27: add_file_to_identity raises nothing; for a file that does not exist
\* or cannot be read it returns false and leaves file_hashes and the cached
\* digest unchanged; it returns true only after storing the file's content
\* hash under the alias or the base name.
C27_AddFileReportsFailure ==
    AddedFile =>
        LET o == callOut[1]
        IN /\ o.raised = ""
           /\ (o.file = None \/ ~o.file[1].readable) =>
                  /\ ~o.ret
                  /\ o.after = o.before
           /\ o.ret =>
                  /\ o.file # None
                  /\ o.key \in DOMAIN o.after.file_hashes
                  /\ o.after.file_hashes[o.key] =
                         Digest(hashAlgorithm, <<o.file[1].bytes>>)

\* C26: when get_identity_hash runs concurrently with a mutation or with
\* another get_identity_hash, once all calls have returned a cached digest
\* is the hash of the identity as it is.
C26_CacheIsOfCurrentState ==
    (/\ \A w \in Hashers : hashers[w].at = "idle"
     /\ cachedHash # None)
        => cachedHash[1] = GenerateIdentityHashOf(hashAlgorithm, identityInfo)

\* C28: a builder configured with an algorithm name that nothing recognizes
\* hashes as a builder configured with the default algorithm does: the
\* digest it returns and the content hash add_file_to_identity stores are
\* the default algorithm's.
C28_UnknownAlgorithmIsDefault ==
    hashAlgorithm \notin RecognizedAlgorithms \cup HashlibAlgorithms =>
        /\ GotHash => callOut[1].ret = GenerateIdentityHash(callOut[1].info)
        /\ (AddedFile /\ callOut[1].ret /\ callOut[1].file[1].readable) =>
               callOut[1].after.file_hashes[callOut[1].key] =
                   CalculateFileHashOf(HashAlgorithm, callOut[1].file)

\* C29: import_identity of a document export_identity wrote leaves an
\* identity equal field for field to the exported one (digest field, creation
\* time, system descriptors, file hashes, custom fields, version) and no
\* cached digest, and the digest of what it leaves is the exporter's digest
\* at the export.
C29_ImportRestoresExport ==
    (Imported /\ callOut[1].ret) =>
        LET source == callOut[1].source[1]
        IN /\ callOut[1].info = source.info
           /\ callOut[1].cached = None
           /\ GenerateIdentityHashOf(hashAlgorithm, callOut[1].info) = source.digest

\* C30: QRData.from_json(p.to_json()) equals p in every field, for every
\* packet p: with no chain hashes, with user data None, with the sequence
\* number 0 and with any other.
C30_FromJsonOfToJson ==
    (callOut # None /\ callOut[1].op = "from_json") =>
        /\ callOut[1].parsed.exc = ""
        /\ callOut[1].parsed.qr = Some(callOut[1].packet)


C31_OnlyTheWhileTestEndsTheLoop ==
    \A t \in LoopThreads :
        (Alive(t) /\ pc'[t] = "none") => (pc[t] = "head" /\ ~running)

C31_FailedProviderGivesNullUserData ==
    \A t \in LoopThreads :
        (disp[t].provider = "raises" /\ pc[t] \in {"encode", "load", "store", "dispatch"})
            => (loc[t].qr # None /\ loc[t].qr[1].user_data = None)

\* the iteration has failed: generate_single_qr raised and the loop sleeps
C31_Failed(t) == pc[t] = "sleep" /\ ~disp[t].generated

\* C31: a loop thread ends only at its while test with the flag cleared,
\* never because the provider, the generation or an observer raised; after
\* an iteration whose generation failed, and after a dispatch in which an
\* observer raised, the thread comes to its while test again and, the flag
\* still set, begins the next iteration; an iteration whose provider raised
\* goes on with user_data null to the generation, and its packet, once
\* generated, is dispatched.
C31_FailuresDoNotEndTheLoop ==
    /\ [][C31_OnlyTheWhileTestEndsTheLoop]_vars
    /\ []C31_FailedProviderGivesNullUserData
    /\ \A t \in LoopThreads :
          /\ C31_Failed(t) ~> (pc[t] = "head")
          /\ (pc[t] = "dispatch" /\ "o1" \in Range(disp[t].invoked)) ~> (pc[t] = "head")
          /\ (pc[t] = "head" /\ running /\ seqNum < MaxSeq)
                ~> (pc[t] = "gather" \/ ~running \/ seqNum >= MaxSeq)
          /\ (pc[t] = "gather" /\ disp[t].provider = "raises")
                ~> (pc[t] = "dispatch" \/ C31_Failed(t))

\* the provider raised and the iteration's packet, user_data null, went to
\* both observers, the raising one first
C31_Witness ==
    \E t \in LoopThreads :
        /\ pc[t] = "dispatch"
        /\ disp[t].provider = "raises"
        /\ disp[t].invoked = <<"o1", "o2">>
        /\ loc[t].qr[1].user_data = None
        /\ running


C32_ReturnNotifiesObservers ==
    (pc[DirectCaller] = "store" /\ pc'[DirectCaller] = "idle")
        => \A o \in Range(callbacks) :
               /\ seen'[o].last = held'[1].sequence_number
               /\ seen'[o] # seen[o]

\* C32: when a direct call of generate_single_qr returns, every observer
\* registered by add_update_callback has been invoked by that call with the
\* packet it returns.
C32_DirectCallInvokesObserver == [][C32_ReturnNotifiesObservers]_vars


C33_RemovedMeansAbsent ==
    \A o \in Observers :
        Count(o, callbacks') < Count(o, callbacks) => o \notin Range(callbacks')

\* C33: when remove_update_callback(cb) returns, cb is no longer in the
\* observer list the dispatch iterates, whatever add_update_callback and
\* remove_update_callback calls came before.
C33_RemovedObserverIsGone == [][C33_RemovedMeansAbsent]_vars


\* the sequence p is the first Len(p) entries of s
C34_Prefix(p, s) == Len(p) <= Len(s) /\ \A i \in DOMAIN p : p[i] = s[i]

\* C34: a chain's handler requests the endpoints configured for the chain
\* in api_endpoints in their priority order, stops at the first valid
\* response, goes on to the next after a failure of any kind, and returns
\* nothing only when every configured endpoint has failed.
C34_EndpointsInPriorityOrder ==
    (callOut # None /\ callOut[1].op = "handler") =>
        LET r == callOut[1]
            configured == ApiEndpoints[r.chain]
        IN /\ C34_Prefix(r.queried, configured)
           /\ \A i \in 1..(Len(r.queried) - 1) : ~Valid(r.answers[r.queried[i]])
           /\ r.source # None =>
                  /\ r.source[1] = r.queried[Len(r.queried)]
                  /\ Valid(r.answers[r.source[1]])
           /\ r.source = None =>
                  /\ r.queried = configured
                  /\ \A e \in Range(configured) : ~Valid(r.answers[e])


\* C35: once stop_live_generation has returned, and until the next start,
\* no loop thread is alive: none generates a packet or invokes an observer.
C35_StoppedMeansFinished ==
    (ctl = "ready" /\ ~running) => \A t \in LoopThreads : ~Alive(t)


\* C36: the packet a direct call has returned and the packet the loop has
\* generated and is dispatching carry different sequence numbers, and the
\* counter has advanced once for each of them.
C36_SequenceNumbersAreUnique ==
    \A t \in LoopThreads :
        (held # None /\ pc[t] = "dispatch") =>
            /\ loc[t].qr[1].sequence_number # held[1].sequence_number
            /\ seqNum > loc[t].qr[1].sequence_number
            /\ seqNum > held[1].sequence_number


C37_LastPacketTracksCounter ==
    pc[DirectCaller] = "idle" =>
        /\ currentQr = None <=> seqNum = 0
        /\ currentQr # None => currentQr[1].sequence_number = seqNum - 1

C37_OnlyAReturnChanges ==
    /\ (seqNum' # seqNum \/ currentQr' # currentQr) =>
           /\ pc[DirectCaller] = "store"
           /\ held' # None
           /\ retCount' = retCount + 1
    /\ (pc[DirectCaller] \in {"gather", "encode"} /\ pc'[DirectCaller] = "idle") =>
           /\ seqNum' = seqNum
           /\ currentQr' = currentQr
           /\ held' = None

\* C37: the counter and the last-packet reference change only in the step
\* in which a generate_single_qr call returns its packet, so a call that
\* fails in a component read or in the encoder leaves both as they were;
\* and between the calls of a single thread the last packet is absent
\* exactly when the counter is 0 and otherwise carries counter - 1.
C37_FailedCallChangesNothing ==
    /\ []C37_LastPacketTracksCounter
    /\ [][C37_OnlyAReturnChanges]_vars

\* a call failed after the first one had returned its packet
C37_Witness ==
    /\ pc[DirectCaller] = "idle"
    /\ held = None
    /\ retCount = 1
    /\ seqNum = 1
    /\ currentQr # None /\ currentQr[1].sequence_number = 0


\* the map a round's responses make: every source that answered, with the
\* offset it answered
C38_CompleteMap(responses) ==
    [s \in {k \in DOMAIN responses : responses[k] # None} |-> responses[s][1]]

C38_ReplacedWholeOrKept ==
    /\ DOMAIN timeOffsets # {} => DOMAIN timeOffsets' # {}
    /\ timeOffsets' # timeOffsets =>
           \E w \in Syncers :
               /\ syncers[w].at = "query" /\ syncers[w].todo = <<>>
               /\ timeOffsets' = C38_CompleteMap(syncers[w].responses)

\* C38: offsets that are not empty are never followed by empty ones,
\* whatever syncs succeed, fail in part or fail wholly; and every change of
\* the offsets puts the complete map of a finished round in the place of
\* the previous one in one step, so that a reader finds one or the other.
C38_OffsetsNeverEmptyAgain == [][C38_ReplacedWholeOrKept]_vars

\* one thread's sync failed wholly and the other's succeeded with one
\* source only, and there are offsets
C38_Witness ==
    /\ syncers["sync1"].at = "idle" /\ syncers["sync1"].counted.failed = 1
    /\ syncers["sync2"].at = "idle" /\ syncers["sync2"].counted.successful = 1
    /\ Cardinality(DOMAIN timeOffsets) = 1


\* C39: in a packet whose time_server_verification lists offsets, the
\* timestamp is the local clock reading plus the median of those offsets.
C39_TimestampFromListedOffsets ==
    (held # None /\ DOMAIN held[1].time_server_verification # {}) =>
        LET tsv == held[1].time_server_verification
            listed == [sv \in DOMAIN tsv |-> tsv[sv].offset]
        IN \A sv \in DOMAIN tsv :
              FromIsoFormat(held[1].timestamp) - MedianOffset(listed)
                  = FromIsoFormat(tsv[sv].timestamp) - Float(tsv[sv].offset)


\* C40: an enabled chain whose record is missing or stale and whose
\* endpoints answer has its record refreshed eventually, the hashes being
\* read again and again and every started thread scheduled, whatever
\* becomes of the refreshes of the other chains.
C40_ReachableChainIsRefreshed ==
    \A c \in EnabledChains :
        (Stale(lastUpdate, c, now) /\ netChain[c] # None)
            ~> ~Stale(lastUpdate, c, now)

=============================================================================
